---- MODULE Spec2Model ----
(***************************************************************************)
(* Versioned assertion store (Postgres), its graph projection (Neo4j) and  *)
(* the correction engine of finance_agent.                                 *)
(*                                                                         *)
(* Calls (applyCorrection, extractAndProjectDocument) run concurrently and *)
(* are interleaved at their await points; a fact-store transaction buffers *)
(* its writes and makes them visible at commit.                            *)
(***************************************************************************)
EXTENDS Integers, Sequences, FiniteSets, TLC

\* ------------------------------------------------------------------ bounds
MaxOps == 3          \* instants handed out by new Date() in one behaviour

\* requests served at the same time
Calls == {1, 2}
\* the instants; a call's instant also serves as the uuid it generates
Ticks == 1..MaxOps

\* --------------------------------------------------------------- universes
EntityIds == {"e1", "e2", "e3"}
\* companies known to EDGAR ingestion
CompanyIds == {"e3"}
DocIds == {"d1"}
ChunkIds == {"c1"}
Predicates == {"BENEFITS_FROM", "EXPOSED_TO", "SUPPLIES_TO", "IMPACTS"}
Actions == {"retract", "supersede", "override"}

\* null / undefined, and a present value
Null == << >>
Some(v) == <<v>>
Val(o) == o[1]

\* the elements of a sequence
Range(q) == {q[i] : i \in 1..Len(q)}

\* a ?? b
Coalesce(a, b) == IF a = Null THEN b ELSE a
\* !x for an optional string: null, undefined and "" are falsy
Falsy(o) == o = Null \/ o = Some("")

VARIABLES
  entities,     \* fact store: ids of the rows of table entities
  assertions,   \* fact store: table assertions, id -> row
  corrections,  \* fact store: table corrections, a set of rows
  nodes,        \* graph: entityId of every (:Entity) node
  edges,        \* graph: relationships carrying an assertionId
  clock,        \* last instant handed out by new Date()
  pc,           \* per call: position in its handler
  op,           \* per call: the handler's input
  loc,          \* per call: the handler's local variables
  result,       \* per call: what the caller receives
  hist,         \* per call: what the call has written so far
  points,       \* vector index: the points of collection doc_chunks
  signals,      \* fact store: table signals, a set of rows
  entityRows,   \* fact store: the columns of the rows of table entities, id -> row
  batch,        \* bulk request: its parameters, queue position and result rows
  stream,       \* bulk request: the events written to the response so far
  worlds        \* per run of a replayed correction: the stores the run works on

vars == <<entities, assertions, corrections, nodes, edges, clock,
          pc, op, loc, result, hist, points, signals, entityRows, batch, stream, worlds>>

dbVars == <<entities, assertions, corrections>>
graphVars == <<nodes, edges>>

\* ------------------------------------------------------------- fact store
\* UPDATE assertions SET status, valid_to WHERE id (apply.ts 70-73, 123-126)
UpdateStatus_KeepsValidTo(tbl, id, status, now) ==
  IF id \in DOMAIN tbl THEN [tbl EXCEPT ![id].status = status] ELSE tbl

UpdateStatus_NoWhere(tbl, id, status, now) ==
  [i \in DOMAIN tbl |-> [tbl[i] EXCEPT !.status = status, !.validTo = Some(now)]]

UpdateStatus(tbl, id, status, now) ==
  IF id \in DOMAIN tbl
    THEN [tbl EXCEPT ![id].status = status, ![id].validTo = Some(now)]
    ELSE tbl

InsertAssertion(tbl, row) ==
  [i \in DOMAIN tbl \cup {row.id} |-> IF i = row.id THEN row ELSE tbl[i]]

\* Foreign keys of a new assertions row.
AssertionFkOk(ents, row) ==
  /\ row.subjectEntityId \in ents
  /\ row.objectEntityId = Null \/ Val(row.objectEntityId) \in ents
  /\ row.sourceDocumentId \in DocIds
  /\ row.sourceChunkId = Null \/ Val(row.sourceChunkId) \in ChunkIds

ApplyWrite(db, w) ==
  CASE w.kind = "update" ->
         [db EXCEPT !.assertions = UpdateStatus(db.assertions, w.id, w.status, w.now)]
    [] w.kind = "insertAssertion" ->
         [db EXCEPT !.assertions = InsertAssertion(db.assertions, w.row)]
    [] w.kind = "insertCorrection" ->
         [db EXCEPT !.corrections = db.corrections \cup {w.row}]

RECURSIVE ApplyWrites(_, _)
ApplyWrites(db, ws) ==
  IF ws = << >> THEN db ELSE ApplyWrites(ApplyWrite(db, Head(ws)), Tail(ws))

\* A write made inside db.transaction: buffered until commit.
TxWrite_Autocommit(db, buf, w) == [db |-> ApplyWrite(db, w), buf |-> buf]
TxWrite(db, buf, w) == [db |-> db, buf |-> Append(buf, w)]

\* COMMIT: the buffered writes become visible together.
TxCommit(db, buf) == ApplyWrites(db, buf)

Db == [assertions |-> assertions, corrections |-> corrections]

\* ------------------------------------------------------------------ graph
EdgeOf(row) ==
  [type |-> row.predicate, from |-> row.subjectEntityId, to |-> row.objectEntityId,
   assertionId |-> row.assertionId, confidence |-> row.confidence,
   sourceDocumentId |-> row.sourceDocumentId, sourceChunkId |-> row.sourceChunkId,
   validFrom |-> row.validFrom, validTo |-> row.validTo, status |-> row.status]

\* MERGE (n:Entity {entityId: row.id}) for every row (project.ts 117-124)
UpsertEntities(ns, ids) == ns \cup ids

\* MERGE that never matches: every call creates the relationship anew.
UpsertAssertionEdge_Create(ns, es, row) ==
  IF row.subjectEntityId \in ns /\ row.objectEntityId \in ns
    THEN es \cup {EdgeOf(row)}
    ELSE es

\* MATCH (s) MATCH (o) MERGE (s)-[r:P {assertionId}]->(o) SET r.* = row.*
UpsertAssertionEdge(ns, es, row) ==
  IF row.subjectEntityId \in ns /\ row.objectEntityId \in ns
    THEN {e \in es : ~(/\ e.type = row.predicate
                       /\ e.from = row.subjectEntityId
                       /\ e.to = row.objectEntityId
                       /\ e.assertionId = row.assertionId)} \cup {EdgeOf(row)}
    ELSE es

\* the SET without the WHERE: every edge is closed
CloseAssertionEdges_All(es, id, status, validTo) ==
  {[e EXCEPT !.status = status, !.validTo = Some(validTo)] : e \in es}

\* MATCH ()-[r]->() WHERE r.assertionId = id SET r.validTo, r.status
CloseAssertionEdges(es, id, status, validTo) ==
  {IF e.assertionId = id THEN [e EXCEPT !.status = status, !.validTo = Some(validTo)]
                         ELSE e : e \in es}

ClosedCount(es, id) == Cardinality({e \in es : e.assertionId = id})


\* ------------------------------------------------------------ call records
IdleOp == [name |-> "none"]
\* no bulk request has arrived
NoBatch == [phase |-> "none"]
\* no correction is being replayed
NoWorlds == << >>
IdleLoc == [target |-> Null, now |-> 0, correctionId |-> 0, newAssertionId |-> Null,
            next |-> Null, closed |-> 0, rel |-> Null, draft |-> Null]
NoResult == [kind |-> "none"]
\* the call in slot c has ended and its result is with the caller
Ended(c) == pc[c] = "idle" /\ result[c].kind # "none"
IdleHist == [committed |-> FALSE, wrote |-> FALSE, graphCalls |-> 0, projected |-> FALSE]

\* The call rejects: the caller gets the error and nothing else.
Failure(call, what) == [kind |-> "error", call |-> call, error |-> what]

\* confidence given to a superseding assertion when the input has none
DefaultConfidence == 90

\* The newAssertion drafts callers pass to supersede/override. A field that
\* is absent (undefined) is Null.
Draft(s, p, o, c, d, k) ==
  [subjectEntityId |-> s, predicate |-> p, objectEntityId |-> o, confidence |-> c,
   sourceDocumentId |-> d, sourceChunkId |-> k]

NewAssertionInputs ==
  {Draft(Some("e2"), Null, Some("e1"), Null, Null, Null),
   Draft(Null, Some("EXPOSED_TO"), Some("e3"), Null, Null, Null),
   Draft(Null, Null, Some(""), Null, Null, Null),
   Draft(Null, Some(""), Null, Null, Null, Null)}

\* apply.ts 101-107: fields of the new assertion, unset ones inherited
ResolveNewAssertion(target, next) ==
  [subjectEntityId |-> Val(Coalesce(next.subjectEntityId, Some(target.subjectEntityId))),
   predicate |-> Coalesce(next.predicate, Some(target.predicate)),
   objectEntityId |-> Coalesce(next.objectEntityId, target.objectEntityId),
   sourceDocumentId |-> Val(Coalesce(next.sourceDocumentId, Some(target.sourceDocumentId))),
   sourceChunkId |-> Coalesce(Coalesce(next.sourceChunkId, target.sourceChunkId), Null),
   confidence |-> Val(Coalesce(next.confidence, Some(DefaultConfidence)))]

\* apply.ts 109-118
ValidationFails(r) == Falsy(r.objectEntityId) \/ Falsy(r.predicate)

\* apply.ts 128-140: the row inserted for the new assertion
NewAssertionRow(id, r, now) ==
  [id |-> id, subjectEntityId |-> r.subjectEntityId, predicate |-> Val(r.predicate),
   objectEntityId |-> r.objectEntityId, confidence |-> r.confidence,
   sourceDocumentId |-> r.sourceDocumentId, sourceChunkId |-> r.sourceChunkId,
   extractionRunId |-> Null, validFrom |-> now, validTo |-> Null, status |-> "active"]

\* the edge row keyed by a fixed id instead of the new assertion's
NewEdgeRow_FixedKey(id, r, now) ==
  [assertionId |-> 1, predicate |-> Val(r.predicate),
   subjectEntityId |-> r.subjectEntityId, objectEntityId |-> Val(r.objectEntityId),
   confidence |-> r.confidence, sourceDocumentId |-> r.sourceDocumentId,
   sourceChunkId |-> Coalesce(r.sourceChunkId, Some("")),
   validFrom |-> now, validTo |-> Null, status |-> "active"]

\* apply.ts 158-171: the edge row projected for the new assertion
NewEdgeRow(id, r, now) ==
  [assertionId |-> id, predicate |-> Val(r.predicate),
   subjectEntityId |-> r.subjectEntityId, objectEntityId |-> Val(r.objectEntityId),
   confidence |-> r.confidence, sourceDocumentId |-> r.sourceDocumentId,
   sourceChunkId |-> Coalesce(r.sourceChunkId, Some("")),
   validFrom |-> now, validTo |-> Null, status |-> "active"]

\* Status written to the target by an action (apply.ts 72, 125)
TargetStatus(action) == IF action = "retract" THEN "retracted" ELSE "superseded"

\* Order of the steps of applyCorrection: select, (validate), transaction,
\* edge closure, (edge upsert), return.
AcNext_GraphFirst(p, action) ==
  CASE p = "ac_select" -> IF action = "retract" THEN "ac_close" ELSE "ac_validate"
    [] p = "ac_validate" -> "ac_close"
    [] p = "ac_close" -> "ac_tx"
    [] p = "ac_tx" -> IF action = "retract" THEN "ac_return" ELSE "ac_upsert"
    [] p = "ac_upsert" -> "ac_return"

AcNext_ValidateLate(p, action) ==
  CASE p = "ac_select" -> IF action = "retract" THEN "ac_tx" ELSE "ac_close"
    [] p = "ac_validate" -> "ac_tx"
    [] p = "ac_tx" -> IF action = "retract" THEN "ac_close" ELSE "ac_upsert"
    [] p = "ac_close" -> IF action = "retract" THEN "ac_return" ELSE "ac_validate"
    [] p = "ac_upsert" -> "ac_return"

AcNext(p, action) ==
  CASE p = "ac_select" -> IF action = "retract" THEN "ac_tx" ELSE "ac_validate"
    [] p = "ac_validate" -> "ac_tx"
    [] p = "ac_tx" -> "ac_close"
    [] p = "ac_close" -> IF action = "retract" THEN "ac_return" ELSE "ac_upsert"
    [] p = "ac_upsert" -> "ac_return"

GraphPcs == {"ac_close", "ac_upsert"}

\* ------------------------------------------------------------------- Init
Init ==
  /\ entities = {}
  /\ assertions = << >>
  /\ corrections = {}
  /\ nodes = {}
  /\ edges = {}
  /\ clock = 0
  /\ pc = [c \in Calls |-> "idle"]
  /\ op = [c \in Calls |-> IdleOp]
  /\ loc = [c \in Calls |-> IdleLoc]
  /\ result = [c \in Calls |-> NoResult]
  /\ hist = [c \in Calls |-> IdleHist]
  /\ points = {}
  /\ signals = {}
  /\ entityRows = << >>
  /\ batch = NoBatch
  /\ stream = << >>
  /\ worlds = NoWorlds


\* ---------------------------------------------------------------- helpers
\* The call ends: the caller gets res, the handler's locals are gone and the
\* slot is free for the next request.
Finish(c, res) ==
  /\ pc' = [pc EXCEPT ![c] = "idle"]
  /\ result' = [result EXCEPT ![c] = res]
  /\ op' = [op EXCEPT ![c] = IdleOp]
  /\ loc' = [loc EXCEPT ![c] = IdleLoc]

\* The call moves to step p with locals l.
Goto(c, p, l) ==
  /\ pc' = [pc EXCEPT ![c] = p]
  /\ loc' = [loc EXCEPT ![c] = l]
  /\ UNCHANGED <<result, op>>

\* apply.ts 91-97, 173-179
OkResult(c, closed) ==
  [kind |-> "ok", call |-> "applyCorrection", targetAssertionId |-> Val(loc[c].target).id,
   action |-> op[c].action, correctionId |-> loc[c].correctionId,
   newAssertionId |-> loc[c].newAssertionId, neo4jClosedEdges |-> closed]

\* Move on to step p; after the last step the call returns its result.
Advance(c, p, l) ==
  IF p = "ac_return" THEN Finish(c, OkResult(c, l.closed)) ELSE Goto(c, p, l)

\* A request is served in the first free slot.
FirstFree(c) == pc[c] = "idle" /\ \A d \in Calls : d < c => pc[d] # "idle"

\* Calls that will still take an instant from the clock.
Pending == Cardinality({c \in Calls : pc[c] \in {"ex_llm", "ex_nodes", "ex_insert"}})

\* ------------------------------------------------- applyCorrection (steps)
\* apply.ts 42-66: a request arrives; select the target, take the time, make
\* the correction id
StartCorrection(c) ==
  /\ FirstFree(c)
  /\ clock + Pending < MaxOps
  /\ \E a \in Actions, t \in Ticks :
       IF t \notin DOMAIN assertions
         THEN /\ Finish(c, Failure("applyCorrection", "NotFound"))
              /\ hist' = [hist EXCEPT ![c] = IdleHist]
              /\ UNCHANGED clock
         ELSE /\ clock' = clock + 1
              /\ hist' = [hist EXCEPT ![c] = [IdleHist EXCEPT !.projected =
                                               \E e \in edges : e.assertionId = t]]
              /\ op' = [op EXCEPT ![c] = [name |-> "applyCorrection", action |-> a,
                                          targetAssertionId |-> t]]
              /\ loc' = [loc EXCEPT ![c] = [IdleLoc EXCEPT !.target = Some(assertions[t]),
                                                           !.now = clock + 1,
                                                           !.correctionId = clock + 1]]
              /\ pc' = [pc EXCEPT ![c] = AcNext("ac_select", a)]
              /\ result' = [result EXCEPT ![c] = NoResult]
  /\ UNCHANGED <<entities, assertions, corrections, nodes, edges, points, signals, entityRows, batch, stream, worlds>>

\* apply.ts 100-120: resolve the new assertion's fields and validate them
AcValidate(c) ==
  /\ pc[c] = "ac_validate"
  /\ \E next \in NewAssertionInputs :
       LET r == ResolveNewAssertion(Val(loc[c].target), next)
       IN IF ValidationFails(r)
            THEN Finish(c, Failure("applyCorrection", "Validation"))
            ELSE Advance(c, AcNext("ac_validate", op[c].action),
                         [loc[c] EXCEPT !.next = Some(r), !.newAssertionId = Some(loc[c].now),
                                         !.draft = Some(next)])
  /\ UNCHANGED <<entities, assertions, corrections, nodes, edges, clock, hist, points, signals, entityRows, batch, stream, worlds>>

\* apply.ts 70-82, 123-149: the statements of the transaction, in order
TxStatements(c) ==
  LET upd == [kind |-> "update", id |-> Val(loc[c].target).id,
              status |-> TargetStatus(op[c].action), now |-> loc[c].now]
      cor == [kind |-> "insertCorrection",
              row |-> [id |-> loc[c].correctionId,
                       targetAssertionId |-> Val(loc[c].target).id,
                       action |-> op[c].action,
                       newAssertionId |-> loc[c].newAssertionId]]
  IN IF op[c].action = "retract"
       THEN <<upd, cor>>
       ELSE <<upd,
              [kind |-> "insertAssertion",
               row |-> NewAssertionRow(Val(loc[c].newAssertionId), Val(loc[c].next),
                                       loc[c].now)],
              cor>>

\* Does the store accept the statement?
StatementOk(w) ==
  w.kind = "insertAssertion" => AssertionFkOk(entities, w.row)

\* The state of the transaction after its first k statements.
RECURSIVE TxRun(_, _)
TxRun(ws, k) ==
  IF k = 0 THEN [db |-> Db, buf |-> << >>]
  ELSE LET r == TxRun(ws, k - 1) IN TxWrite(r.db, r.buf, ws[k])

\* apply.ts 69-83, 122-150: db.transaction runs its statements and commits.
\* The transaction only writes, and its writes are invisible until the
\* commit, so other calls see it happen at the commit.
AcTx(c) ==
  /\ pc[c] = "ac_tx"
  /\ LET ws == TxStatements(c)
         r == TxRun(ws, Len(ws))
         db == TxCommit(r.db, r.buf)
     IN /\ \A k \in 1..Len(ws) : StatementOk(ws[k])
        /\ assertions' = db.assertions
        /\ corrections' = db.corrections
        /\ hist' = [hist EXCEPT ![c].wrote = @ \/ db # Db, ![c].committed = TRUE]
  /\ Advance(c, AcNext("ac_tx", op[c].action), loc[c])
  /\ UNCHANGED <<entities, nodes, edges, clock, points, signals, entityRows, batch, stream, worlds>>

\* Statement k+1 of the transaction throws (a violated foreign key, a lost
\* connection) or the commit does: the transaction rolls back and
\* applyCorrection rejects.
AcTxFail(c) ==
  /\ pc[c] = "ac_tx"
  /\ \E k \in 0..Len(TxStatements(c)) :
       LET r == TxRun(TxStatements(c), k)
       IN /\ \A i \in 1..k : StatementOk(TxStatements(c)[i])
          /\ assertions' = r.db.assertions
          /\ corrections' = r.db.corrections
          /\ hist' = [hist EXCEPT ![c].wrote = @ \/ r.db # Db]
  /\ Finish(c, Failure("applyCorrection", "Db"))
  /\ UNCHANGED <<entities, nodes, edges, clock, points, signals, entityRows, batch, stream, worlds>>

\* apply.ts 85-89, 152-156
AcClose(c) ==
  /\ pc[c] = "ac_close"
  /\ LET id == Val(loc[c].target).id
     IN /\ edges' = CloseAssertionEdges(edges, id, TargetStatus(op[c].action), loc[c].now)
        /\ Advance(c, AcNext("ac_close", op[c].action),
                   [loc[c] EXCEPT !.closed = ClosedCount(edges, id)])
  /\ hist' = [hist EXCEPT ![c].graphCalls = @ + 1]
  /\ UNCHANGED <<entities, assertions, corrections, nodes, clock, points, signals, entityRows, batch, stream, worlds>>

\* apply.ts 158-171
AcUpsert(c) ==
  /\ pc[c] = "ac_upsert"
  /\ edges' = UpsertAssertionEdge(nodes, edges,
                NewEdgeRow(Val(loc[c].newAssertionId), Val(loc[c].next), loc[c].now))
  /\ hist' = [hist EXCEPT ![c].graphCalls = @ + 1]
  /\ Advance(c, AcNext("ac_upsert", op[c].action), loc[c])
  /\ UNCHANGED <<entities, assertions, corrections, nodes, clock, points, signals, entityRows, batch, stream, worlds>>

\* A graph call throws: nothing catches it, applyCorrection rejects.
AcGraphFail(c) ==
  /\ pc[c] \in GraphPcs
  /\ Finish(c, Failure("applyCorrection", "Graph"))
  /\ UNCHANGED <<entities, assertions, corrections, nodes, edges, clock, hist, points, signals, entityRows, batch, stream, worlds>>

\* ------------------------------------------------------------- extraction
\* What the extractor returns for a predicate, after trim, upper-casing and
\* replacing runs of blanks and dashes by "_" (client.ts normalizePredicate).
RawPredicates == {"benefits from", "OWNS", "EXPOSED"}

CanonForm(raw) ==
  CASE raw = "benefits from" -> "BENEFITS_FROM"
    [] OTHER -> raw

NormalizePredicate(raw) ==
  LET p == CanonForm(raw)
  IN IF p = "" THEN Null
     ELSE IF p \in Predicates THEN Some(p)
     ELSE IF p \in {"AFFECTS", "AFFECTS_NEGATIVELY", "AFFECTS_POSITIVELY", "IMPACT",
                    "IMPACTS_ON", "AFFECTS_ON"} THEN Some("IMPACTS")
     ELSE IF p \in {"BENEFITS", "PROFITS_FROM", "GAINS_FROM"} THEN Some("BENEFITS_FROM")
     ELSE IF p \in {"EXPOSED", "RISK_FROM", "RISK_OF", "DEPENDENT_ON", "DEPENDENCE_ON",
                    "SUBJECT_TO"} THEN Some("EXPOSED_TO")
     ELSE IF p \in {"SUPPLIES", "SUPPLIER_TO", "PROVIDES_TO", "SELLS_TO", "SERVES"}
       THEN Some("SUPPLIES_TO")
     ELSE Null

\* Relations the extractor proposes for a chunk.
Rel(s, p, o) == [subject |-> s, predicate |-> p, object |-> o, confidence |-> 80]

Relations ==
  {Rel("e1", "benefits from", "e2"), Rel("e1", "OWNS", "e2"), Rel("e1", "benefits from", "e1")}

\* the relation is stored whenever its predicate is of the vocabulary
RelationKept_AnyPair(rel) == NormalizePredicate(rel.predicate) # Null

\* client.ts 435-470: is the relation stored?
RelationKept(rel) ==
  /\ rel.subject # rel.object
  /\ NormalizePredicate(rel.predicate) # Null

ExtractedAssertionRow(id, rel, doc, chunk, now) ==
  [id |-> id, subjectEntityId |-> rel.subject,
   predicate |-> Val(NormalizePredicate(rel.predicate)),
   objectEntityId |-> Some(rel.object), confidence |-> rel.confidence,
   sourceDocumentId |-> doc, sourceChunkId |-> Some(chunk),
   extractionRunId |-> Some("run"), validFrom |-> now, validTo |-> Null,
   status |-> "active"]

ExtractedEdgeRow(id, rel, doc, chunk, now) ==
  [assertionId |-> id, predicate |-> Val(NormalizePredicate(rel.predicate)),
   subjectEntityId |-> rel.subject, objectEntityId |-> rel.object,
   confidence |-> rel.confidence, sourceDocumentId |-> doc,
   sourceChunkId |-> Some(chunk), validFrom |-> now, validTo |-> Null,
   status |-> "active"]

ExOk(processed, failedChunks, inserted) ==
  [kind |-> "ok", call |-> "extractAndProjectDocument", processedChunks |-> processed, failedChunks |-> failedChunks,
   assertionsInserted |-> inserted]

\* client.ts 275-337: a request arrives; find the document, project the filing
\* and its chunks
StartExtract(c) ==
  /\ FirstFree(c)
  /\ clock + Pending < MaxOps
  /\ \E d \in DocIds \cup {"missing"} :
       IF d \notin DocIds
         THEN Finish(c, Failure("extractAndProjectDocument", "NotFound")) /\ hist' = [hist EXCEPT ![c] = IdleHist]
         ELSE /\ op' = [op EXCEPT ![c] = [name |-> "extractAndProjectDocument",
                                          documentId |-> d]]
              /\ pc' = [pc EXCEPT ![c] = "ex_llm"]
              /\ hist' = [hist EXCEPT ![c] = [IdleHist EXCEPT !.graphCalls = 1]]
              /\ result' = [result EXCEPT ![c] = NoResult]
              /\ UNCHANGED loc
  /\ UNCHANGED <<entities, assertions, corrections, nodes, edges, clock, points, signals, entityRows, batch, stream, worlds>>

\* client.ts 347-398: the extractor answers for the chunk and the entities of
\* its relation are found or created, or it fails and the chunk is skipped
ExEntities(c) ==
  /\ pc[c] = "ex_llm"
  /\ \/ \E rel \in Relations :
          /\ entities' = entities \cup {rel.subject, rel.object}
          /\ hist' = [hist EXCEPT ![c].wrote = @ \/ ~({rel.subject, rel.object} \subseteq entities)]
          /\ Goto(c, "ex_nodes", [loc[c] EXCEPT !.rel = Some(rel)])
     \/ /\ Finish(c, ExOk(0, 1, 0))
        /\ UNCHANGED <<entities, hist>>
  /\ UNCHANGED <<assertions, corrections, nodes, edges, clock, points, signals, entityRows, batch, stream, worlds>>

\* client.ts 400-417: upsertEntitiesToNeo4j, upsertMentionsToNeo4j
ExNodes(c) ==
  /\ pc[c] = "ex_nodes"
  /\ LET rel == Val(loc[c].rel)
     IN nodes' = UpsertEntities(nodes, {rel.subject, rel.object})
  /\ hist' = [hist EXCEPT ![c].graphCalls = @ + 1]
  /\ Goto(c, "ex_insert", loc[c])
  /\ UNCHANGED <<entities, assertions, corrections, edges, clock, points, signals, entityRows, batch, stream, worlds>>

\* client.ts 419-474: build the rows and insert the assertions
ExInsert(c) ==
  /\ pc[c] = "ex_insert"
  /\ clock' = clock + 1
  /\ LET rel == Val(loc[c].rel)
     IN IF RelationKept(rel)
          THEN /\ assertions' = InsertAssertion(assertions,
                    ExtractedAssertionRow(clock + 1, rel, op[c].documentId, "c1", clock + 1))
               /\ hist' = [hist EXCEPT ![c].wrote = TRUE, ![c].committed = TRUE]
               /\ Goto(c, "ex_edges", [loc[c] EXCEPT !.now = clock + 1])
          ELSE /\ Finish(c, ExOk(1, 0, 0))
               /\ UNCHANGED <<assertions, hist>>
  /\ UNCHANGED <<entities, corrections, nodes, edges, points, signals, entityRows, batch, stream, worlds>>

\* client.ts 476-498: project the edges and return
ExEdges(c) ==
  /\ pc[c] = "ex_edges"
  /\ edges' = UpsertAssertionEdge(nodes, edges,
                ExtractedEdgeRow(loc[c].now, Val(loc[c].rel), op[c].documentId, "c1", loc[c].now))
  /\ hist' = [hist EXCEPT ![c].graphCalls = @ + 1]
  /\ Finish(c, ExOk(1, 0, 1))
  /\ UNCHANGED <<entities, assertions, corrections, nodes, clock, points, signals, entityRows, batch, stream, worlds>>

\* A store or graph call of the extraction throws: the call rejects.
ExFail(c) ==
  /\ pc[c] \in {"ex_llm", "ex_nodes", "ex_insert", "ex_edges"}
  /\ Finish(c, Failure("extractAndProjectDocument", IF pc[c] \in {"ex_llm", "ex_insert"} THEN "Db" ELSE "Graph"))
  /\ UNCHANGED <<entities, assertions, corrections, nodes, edges, clock, hist, points, signals, entityRows, batch, stream, worlds>>

\* -------------------------------------------------------- EDGAR ingestion
\* edgar/ingest.ts 54-116: the company stub is written to the fact store only
UpsertCompanyEntityFromSubmission(e) ==
  /\ e \notin entities
  /\ entities' = entities \cup {e}
  /\ UNCHANGED <<assertions, corrections, nodes, edges, clock, pc, op, loc, result,
                 hist, points, signals, entityRows, batch, stream, worlds>>

\* ------------------------------------------------------ conflict detector
\* openai.ts 61-65
SINGLE_VALUED_PREDICATES == <<"CEO", "HEADQUARTERED_IN", "FOUNDED_IN">>

\* openai.ts 79: rows scanned when the caller gives no limit, and at most
ConflictScanDefault == 2000
ConflictScanMax == 5000

Min(a, b) == IF a < b THEN a ELSE b
Max(a, b) == IF a > b THEN a ELSE b

\* openai.ts 79
ScanLimit(limit) ==
  Max(1, Min(Val(Coalesce(limit, Some(ConflictScanDefault))), ConflictScanMax))

\* the predicates of the extraction vocabulary as the default
EffectivePredicates_Vocabulary(predicates) ==
  IF predicates # Null /\ Len(Val(predicates)) > 0
    THEN Val(predicates)
    ELSE <<"BENEFITS_FROM", "EXPOSED_TO", "SUPPLIES_TO", "IMPACTS">>

\* openai.ts 81-84
EffectivePredicates(predicates) ==
  IF predicates # Null /\ Len(Val(predicates)) > 0
    THEN Val(predicates)
    ELSE SINGLE_VALUED_PREDICATES

\* What callers pass as opts.predicates and opts.limit.
PredicateInputs ==
  {Null, Some(<< >>), Some(<<"BENEFITS_FROM">>), Some(<<"BENEFITS_FROM", "EXPOSED_TO">>)}
LimitInputs == {Null, Some(1)}

InList(x, list) == \E i \in 1..Len(list) : list[i] = x

\* the WHERE clause with every status accepted
Selected_AnyStatus(tbl, predicates) ==
  {id \in DOMAIN tbl : InList(tbl[id].predicate, predicates)}

\* openai.ts 96-102: WHERE status = 'active' AND valid_to IS NULL AND
\* predicate IN (predicates)
Selected(tbl, predicates) ==
  {id \in DOMAIN tbl :
     /\ tbl[id].status = "active"
     /\ tbl[id].validTo = Null
     /\ InList(tbl[id].predicate, predicates)}

\* The rows of ids as the store returns them, here in the order of their ids.
RECURSIVE RowsOf(_, _)
RowsOf(tbl, ids) ==
  IF ids = {} THEN << >>
  ELSE LET m == CHOOSE i \in ids : \A j \in ids : i <= j
       IN <<tbl[m]>> \o RowsOf(tbl, ids \ {m})

\* openai.ts 108
GroupKey(r) == <<r.subjectEntityId, r.predicate>>

\* openai.ts 107-121: the rows grouped by key, groups in order of first row
RECURSIVE GroupRows(_, _)
GroupRows(rows, groups) ==
  IF rows = << >> THEN groups
  ELSE LET r == Head(rows)
           at == {i \in 1..Len(groups) :
                    <<groups[i].subjectEntityId, groups[i].predicate>> = GroupKey(r)}
       IN IF at = {}
            THEN GroupRows(Tail(rows),
                   Append(groups, [subjectEntityId |-> r.subjectEntityId,
                                   predicate |-> r.predicate,
                                   assertionIds |-> <<r.id>>,
                                   objectEntityIds |-> <<r.objectEntityId>>]))
            ELSE LET i == CHOOSE i \in at : TRUE
                 IN GroupRows(Tail(rows),
                      [groups EXCEPT ![i].assertionIds = Append(@, r.id),
                                     ![i].objectEntityIds = Append(@, r.objectEntityId)])

\* v ?? "NULL"
ObjectKey(v) == IF v = Null THEN "NULL" ELSE Val(v)

\* a group is a conflict as soon as it has two rows
IsConflict_CountsRows(g) == Len(g.objectEntityIds) > 1

\* openai.ts 125-126
IsConflict(g) ==
  Cardinality({ObjectKey(g.objectEntityIds[i]) : i \in 1..Len(g.objectEntityIds)}) > 1

\* openai.ts 105-131
ConflictGroups(rows) == SelectSeq(GroupRows(rows, << >>), IsConflict)

ConflictsOk(conflicts) ==
  [kind |-> "ok", call |-> "detectConflicts", conflicts |-> conflicts]

\* what a conflict detection has been asked
DetectHist(predicates) ==
  [committed |-> FALSE, wrote |-> FALSE, graphCalls |-> 0, projected |-> FALSE,
   predicates |-> predicates]

\* openai.ts 74-86: a request arrives; the limit and the predicates are fixed
StartDetect(c) ==
  /\ FirstFree(c)
  /\ \E predicates \in PredicateInputs, limit \in LimitInputs :
       /\ hist' = [hist EXCEPT ![c] = DetectHist(predicates)]
       /\ IF Len(EffectivePredicates(predicates)) = 0
         THEN /\ Finish(c, ConflictsOk(<< >>))
         ELSE /\ op' = [op EXCEPT ![c] = [name |-> "detectConflicts",
                                          predicates |-> predicates, limit |-> limit]]
              /\ pc' = [pc EXCEPT ![c] = "dc_select"]
              /\ result' = [result EXCEPT ![c] = NoResult]
              /\ UNCHANGED loc
  /\ UNCHANGED <<entities, assertions, corrections, nodes, edges, clock, points, signals, entityRows, batch, stream, worlds>>

\* openai.ts 88-131: the store answers with at most limit of the selected
\* rows, any of them; they are grouped and the conflicts returned
DcSelect(c) ==
  /\ pc[c] = "dc_select"
  /\ LET all == Selected(assertions, EffectivePredicates(op[c].predicates))
         n == Min(ScanLimit(op[c].limit), Cardinality(all))
     IN \E ids \in SUBSET all :
          /\ Cardinality(ids) = n
          /\ Finish(c, ConflictsOk(ConflictGroups(RowsOf(assertions, ids))))
  /\ UNCHANGED <<entities, assertions, corrections, nodes, edges, clock, hist, points, signals, entityRows, batch, stream, worlds>>

\* The fact store and the graph after extraction has stored and projected
\* the relations rels[1..n] of chunk c1 of document d1, one run per relation.
SeedRelations ==
  {Rel("e1", p, o) : p \in {"benefits from", "EXPOSED"}, o \in {"e2", "e3"}}

SeededInit(rels) ==
  LET n == Len(rels)
  IN /\ entities = UNION {{rels[i].subject, rels[i].object} : i \in 1..n}
     /\ assertions = [i \in 1..n |-> ExtractedAssertionRow(i, rels[i], "d1", "c1", i)]
     /\ corrections = {}
     /\ nodes = entities
     /\ edges = {EdgeOf(ExtractedEdgeRow(i, rels[i], "d1", "c1", i)) : i \in 1..n}
     /\ clock = n
     /\ pc = [c \in Calls |-> "idle"]
     /\ op = [c \in Calls |-> IdleOp]
     /\ loc = [c \in Calls |-> IdleLoc]
     /\ result = [c \in Calls |-> NoResult]
     /\ hist = [c \in Calls |-> IdleHist]
     /\ points = {}
     /\ signals = {}
     /\ entityRows = << >>
     /\ batch = NoBatch
     /\ stream = << >>
     /\ worlds = NoWorlds

InitConflicts ==
  \E n \in {MaxOps - 1, MaxOps} : \E rels \in [1..n -> SeedRelations] : SeededInit(rels)

NextConflicts ==
  \/ \E c \in Calls : StartCorrection(c)
  \/ \E c \in Calls : AcValidate(c)
  \/ \E c \in Calls : AcTx(c)
  \/ \E c \in Calls : AcClose(c)
  \/ \E c \in Calls : AcUpsert(c)
  \/ \E c \in Calls : StartDetect(c)
  \/ \E c \in Calls : DcSelect(c)

SpecConflicts == InitConflicts /\ [][NextConflicts]_vars

\* ---------------------------------------------------------- vector search
\* part_009 230: hits asked for when the caller gives no topK, and at most
DefaultTopK == 10
MaxTopK == 50

\* openai.ts 22-24
EmbeddingModel == "text-embedding-3-small"

\* A point of the index with its payload (ingest.ts 281-293) and, the query
\* being fixed, its score for the query.
Point(id, cik, docType, accessionNo, score) ==
  [id |-> id, score |-> score,
   payload |-> [chunk_id |-> id, document_id |-> accessionNo, cik |-> cik,
                doc_type |-> docType, accession_no |-> accessionNo]]

PointUniverse ==
  {Point("k1", "1", "10-k", "a1", 5),
   Point("k2", "1", "10-q", "a2", 9),
   Point("k3", "2", "10-k", "a3", 7)}

\* What callers pass as query, topK and filters.
QueryInputs == {"q", " "}
TopKInputs == {Null, Some(0), Some(1)}
CikInputs == {Null, Some("1"), Some("01"), Some(" ")}
DocTypeInputs == {Null, Some("10-k"), Some("10-q")}
AccessionInputs == {Null, Some("a1"), Some("a9")}

\* s.trim(), on the strings above
Trim(str) == IF str = " " THEN "" ELSE str

\* cik.replace(/^0+/, ""), on the strings above
StripLeadingZeros(str) == IF str = "01" THEN "1" ELSE str

\* part_009 230
ClampTopK(topK) == Max(1, Min(Val(Coalesce(topK, Some(DefaultTopK))), MaxTopK))

\* part_009 233-252: the condition each filter contributes, none when the
\* filter is absent or blank
CikMust(cik) ==
  IF cik = Null \/ Trim(Val(cik)) = "" THEN << >>
  ELSE <<[key |-> "cik", value |-> StripLeadingZeros(Trim(Val(cik)))]>>

DocTypeMust(docType) ==
  IF docType = Null THEN << >> ELSE <<[key |-> "doc_type", value |-> Val(docType)]>>

AccessionMust(accessionNo) ==
  IF accessionNo = Null \/ Trim(Val(accessionNo)) = "" THEN << >>
  ELSE <<[key |-> "accession_no", value |-> Trim(Val(accessionNo))]>>

\* the broadest filter tried first
Attempts_GlobalFirst(filters) ==
  << << >>,
     CikMust(filters.cik) \o DocTypeMust(filters.docType) \o AccessionMust(filters.accessionNo),
     CikMust(filters.cik) \o DocTypeMust(filters.docType),
     CikMust(filters.cik) >>

\* part_009 282-286
Attempts(filters) ==
  << CikMust(filters.cik) \o DocTypeMust(filters.docType) \o AccessionMust(filters.accessionNo),
     CikMust(filters.cik) \o DocTypeMust(filters.docType),
     CikMust(filters.cik),
     << >> >>

\* no attempt is dropped
UniqueAttempts_KeepAll(attempts, seen) == attempts

\* part_009 289-295: an attempt equal to an earlier one is dropped
RECURSIVE UniqueAttempts(_, _)
UniqueAttempts(attempts, seen) ==
  IF attempts = << >> THEN << >>
  ELSE IF Head(attempts) \in seen THEN UniqueAttempts(Tail(attempts), seen)
  ELSE <<Head(attempts)>> \o UniqueAttempts(Tail(attempts), seen \cup {Head(attempts)})

\* the points the filter { must } lets through
Matching(pts, must) ==
  {p \in pts : \A i \in 1..Len(must) : p.payload[must[i].key] = must[i].value}

\* part_009 267-275
HitOf(p) ==
  [score |-> p.score, chunkId |-> p.payload.chunk_id,
   documentId |-> p.payload.document_id, payload |-> p.payload]

\* the limit best-scoring points, best first
RECURSIVE TopHits(_, _)
TopHits(pts, limit) ==
  IF limit = 0 \/ pts = {} THEN << >>
  ELSE LET best == CHOOSE p \in pts : \A q \in pts : q.score <= p.score
       IN <<HitOf(best)>> \o TopHits(pts \ {best}, limit - 1)

\* part_009 254-278: qdrant.search(vector, limit: topK, filter: { must })
SearchWith(pts, must, topK) == TopHits(Matching(pts, must), topK)

\* part_009 303
SearchOk(hits) ==
  [kind |-> "ok", call |-> "vectorSearchChunks", model |-> EmbeddingModel, hits |-> hits]

\* what a search call has been asked and the searches it has issued
SearchHist(query, topK, filters, searches) ==
  [committed |-> FALSE, wrote |-> FALSE, graphCalls |-> 0, projected |-> FALSE,
   query |-> query, topK |-> topK, filters |-> filters, searches |-> searches]

\* part_009 222-295: a request arrives; a blank query is answered at once,
\* otherwise the query is embedded and the attempts are laid out. One search
\* request is served at a time.
StartSearch(c) ==
  /\ FirstFree(c)
  /\ \A d \in Calls : pc[d] = "idle"
  /\ \E query \in QueryInputs, topK \in TopKInputs, cik \in CikInputs,
        docType \in DocTypeInputs, accessionNo \in AccessionInputs :
       LET filters == [cik |-> cik, docType |-> docType, accessionNo |-> accessionNo]
       IN /\ hist' = [hist EXCEPT ![c] = SearchHist(query, topK, filters, << >>)]
          /\ IF Trim(query) = ""
               THEN Finish(c, SearchOk(<< >>))
               ELSE /\ op' = [op EXCEPT ![c] = [name |-> "vectorSearchChunks",
                                                query |-> query, topK |-> topK,
                                                filters |-> filters]]
                    /\ loc' = [loc EXCEPT ![c] =
                                 [topK |-> ClampTopK(topK),
                                  attempts |-> UniqueAttempts(Attempts(filters), {})]]
                    /\ pc' = [pc EXCEPT ![c] = "vs_search"]
                    /\ result' = [result EXCEPT ![c] = NoResult]
  /\ UNCHANGED <<entities, assertions, corrections, nodes, edges, clock, points, signals, entityRows, batch, stream, worlds>>

\* part_009 297-303: the next attempt; the first one with a hit, or the last
\* one, is the answer
VsAttempt(c) ==
  /\ pc[c] = "vs_search"
  /\ LET must == Head(loc[c].attempts)
         hits == SearchWith(points, must, loc[c].topK)
     IN /\ hist' = [hist EXCEPT ![c].searches = Append(@, must)]
        /\ IF Len(hits) > 0 \/ Tail(loc[c].attempts) = << >>
             THEN Finish(c, SearchOk(hits))
             ELSE Goto(c, "vs_search", [loc[c] EXCEPT !.attempts = Tail(@)])
  /\ UNCHANGED <<entities, assertions, corrections, nodes, edges, clock, points, signals, entityRows, batch, stream, worlds>>

\* The embedding or the index call throws: the call rejects.
VsFail(c) ==
  /\ pc[c] = "vs_search"
  /\ Finish(c, Failure("vectorSearchChunks", "Upstream"))
  /\ UNCHANGED <<entities, assertions, corrections, nodes, edges, clock, hist, points, signals, entityRows, batch, stream, worlds>>

\* The index holds the chunks ingested so far.
InitSearch ==
  /\ entities = {}
  /\ assertions = << >>
  /\ corrections = {}
  /\ nodes = {}
  /\ edges = {}
  /\ clock = 0
  /\ pc = [c \in Calls |-> "idle"]
  /\ op = [c \in Calls |-> IdleOp]
  /\ loc = [c \in Calls |-> IdleLoc]
  /\ result = [c \in Calls |-> NoResult]
  /\ hist = [c \in Calls |-> IdleHist]
  /\ points \in SUBSET PointUniverse
  /\ signals = {}
  /\ entityRows = << >>
  /\ batch = NoBatch
  /\ stream = << >>
  /\ worlds = NoWorlds

NextSearch ==
  \/ \E c \in Calls : StartSearch(c)
  \/ \E c \in Calls : VsAttempt(c)
  \/ \E c \in Calls : VsFail(c)

SpecSearch == InitSearch /\ [][NextSearch]_vars

\* -------------------------------------------------------- graph traversal
\* part_009 5
ALLOWED_EDGE_TYPES == <<"BENEFITS_FROM", "EXPOSED_TO", "SUPPLIES_TO", "IMPACTS">>

\* part_009 58-59: depth and limit when the caller gives none, and their ranges
TraverseDefaultDepth == 2
TraverseMinDepth == 1
TraverseMaxDepth == 3
TraverseDefaultLimit == 25
TraverseMinLimit == 1
TraverseMaxLimit == 200

\* every type of the vocabulary, whatever the caller lists
SanitizeEdgeTypes_Everything(types) == ALLOWED_EDGE_TYPES

\* part_009 26-35
SanitizeEdgeTypes(types) ==
  IF types = Null \/ Len(Val(types)) = 0 THEN ALLOWED_EDGE_TYPES
  ELSE LET Allowed(t) == InList(t, ALLOWED_EDGE_TYPES)
           out == SelectSeq(Val(types), Allowed)
       IN IF Len(out) > 0 THEN out ELSE ALLOWED_EDGE_TYPES

\* part_009 37-40, on integers
ClampInt(n, lo, hi) == Max(lo, Min(hi, n))

\* What callers pass as seedEntityIds, edgeTypes, depth and limit.
SeedInputs == {<< >>, <<" ">>, <<"e1">>, <<"e1", "e2">>, <<"e3", "e1">>, <<"e9">>}
EdgeTypeInputs ==
  {Null, Some(<< >>), Some(<<"BENEFITS_FROM">>), Some(<<"OWNS">>),
   Some(<<"OWNS", "EXPOSED_TO">>)}
DepthInputs == {Null, Some(0), Some(1), Some(9)}
TraverseLimitInputs == {Null, Some(1)}

\* the node at the other end of relationship e, seen from node at
OtherEnd(e, at) == IF e.from = at THEN e.to ELSE e.from

\* The paths (s)-[*1..k]-(n) from node at that use no relationship of used
\* and none twice, each as its sequence of segments.
RECURSIVE PathsFrom(_, _, _, _)
PathsFrom(es, at, used, k) ==
  IF k = 0 THEN {}
  ELSE UNION {LET seg == [start |-> at, end |-> OtherEnd(e, at), relationship |-> e]
              IN {<<seg>>} \cup
                 {<<seg>> \o rest : rest \in PathsFrom(es, seg.end, used \cup {e}, k - 1)}
              : e \in {x \in es \ used : x.from = at \/ x.to = at}}

\* the same pattern restricted to the relationships whose status is active
MatchPaths_ActiveOnly(ns, es, seeds, types, depth) ==
  IF Trim(seeds[1]) \in ns
    THEN PathsFrom({e \in es : InList(e.type, types) /\ e.status = "active"},
                   Trim(seeds[1]), {}, depth)
    ELSE {}

\* part_009 54, 62-64: MATCH p=(s:Entity {entityId: $seed})-[:types*1..depth]-(n:Entity)
\* with $seed the first of the seed ids
MatchPaths(ns, es, seeds, types, depth) ==
  IF Trim(seeds[1]) \in ns
    THEN PathsFrom({e \in es : InList(e.type, types)}, Trim(seeds[1]), {}, depth)
    ELSE {}

\* the records of a result set, in some order
RECURSIVE Records(_)
Records(paths) ==
  IF paths = {} THEN << >>
  ELSE LET p == CHOOSE x \in paths : TRUE IN <<p>> \o Records(paths \ {p})

RECURSIVE Flatten(_)
Flatten(records) ==
  IF records = << >> THEN << >> ELSE Head(records) \o Flatten(Tail(records))

\* part_009 87, 94: nodesById.has(id)
HasNode(ns, id) == \E i \in 1..Len(ns) : ns[i].id = id

\* part_009 87-100: nodesById.set unless the id is there
AddNode(ns, id) ==
  IF HasNode(ns, id) THEN ns
  ELSE Append(ns, [id |-> id, properties |-> [entityId |-> id]])

\* the key without the assertionId: type and end points only
AddEdge_KeyWithoutId(es, seg) ==
  LET rel == seg.relationship
  IN IF \E i \in 1..Len(es) :
          /\ es[i].type = rel.type
          /\ es[i].from = seg.start
          /\ es[i].to = seg.end
       THEN es
       ELSE Append(es, [type |-> rel.type, from |-> seg.start, to |-> seg.end,
                        properties |-> [assertionId |-> rel.assertionId,
                                        confidence |-> rel.confidence,
                                        sourceDocumentId |-> rel.sourceDocumentId,
                                        sourceChunkId |-> rel.sourceChunkId,
                                        validFrom |-> rel.validFrom,
                                        validTo |-> rel.validTo,
                                        status |-> rel.status]])

\* part_009 108-109: edgesByKey.has(key), the key being
\* type:assertionId:startId->endId
HasEdge(es, seg) ==
  \E i \in 1..Len(es) :
    /\ es[i].type = seg.relationship.type
    /\ es[i].properties.assertionId = seg.relationship.assertionId
    /\ es[i].from = seg.start
    /\ es[i].to = seg.end

\* part_009 102-116: edgesByKey.set unless the key is there
AddEdge(es, seg) ==
  LET rel == seg.relationship
  IN IF HasEdge(es, seg)
       THEN es
       ELSE Append(es, [type |-> rel.type, from |-> seg.start, to |-> seg.end,
                        properties |-> [assertionId |-> rel.assertionId,
                                        confidence |-> rel.confidence,
                                        sourceDocumentId |-> rel.sourceDocumentId,
                                        sourceChunkId |-> rel.sourceChunkId,
                                        validFrom |-> rel.validFrom,
                                        validTo |-> rel.validTo,
                                        status |-> rel.status]])

\* part_009 71-123: the loop over the segments, from the maps ns and es. A
\* segment whose two nodes and whose key are there already sets nothing.
RECURSIVE GraphOfSegments(_, _, _)
GraphOfSegments(segs, ns, es) ==
  IF segs = << >> THEN [nodes |-> ns, edges |-> es]
  ELSE LET seg == Head(segs)
       IN IF HasNode(ns, seg.start) /\ HasNode(ns, seg.end) /\ HasEdge(es, seg)
            THEN GraphOfSegments(Tail(segs), ns, es)
            ELSE GraphOfSegments(Tail(segs),
                                 AddNode(AddNode(ns, seg.start), seg.end),
                                 AddEdge(es, seg))

GraphOk(call, g) == [kind |-> "ok", call |-> call, nodes |-> g.nodes, edges |-> g.edges]

\* what a traversal has been asked and the paths its query returned
TraverseHist(seeds, types, depth, limit, paths) ==
  [committed |-> FALSE, wrote |-> FALSE, graphCalls |-> 0, projected |-> FALSE,
   seedEntityIds |-> seeds, edgeTypes |-> types, depth |-> depth, limit |-> limit,
   paths |-> paths]

\* part_009 48-64: a request arrives; without a first seed it is answered at
\* once. One traversal is served at a time.
StartTraverse(c) ==
  /\ FirstFree(c)
  /\ \A d \in Calls : pc[d] = "idle"
  /\ \E seeds \in SeedInputs, types \in EdgeTypeInputs, depth \in DepthInputs,
        limit \in TraverseLimitInputs :
       /\ hist' = [hist EXCEPT ![c] = TraverseHist(seeds, types, depth, limit, {})]
       /\ IF Len(seeds) = 0 \/ Trim(seeds[1]) = ""
            THEN Finish(c, GraphOk("graphTraverse", [nodes |-> << >>, edges |-> << >>]))
            ELSE /\ op' = [op EXCEPT ![c] = [name |-> "graphTraverse",
                                             seedEntityIds |-> seeds]]
                 /\ loc' = [loc EXCEPT ![c] =
                              [edgeTypes |-> SanitizeEdgeTypes(types),
                               depth |-> ClampInt(Val(Coalesce(depth, Some(TraverseDefaultDepth))),
                                                  TraverseMinDepth, TraverseMaxDepth),
                               limit |-> ClampInt(Val(Coalesce(limit, Some(TraverseDefaultLimit))),
                                                  TraverseMinLimit, TraverseMaxLimit)]]
                 /\ pc' = [pc EXCEPT ![c] = "gt_run"]
                 /\ result' = [result EXCEPT ![c] = NoResult]
  /\ UNCHANGED <<entities, assertions, corrections, nodes, edges, clock, points, signals, entityRows, batch, stream, worlds>>

\* part_009 66-123: the query returns at most limit of the matching paths,
\* any of them; their segments give the nodes and the edges
GtRun(c) ==
  /\ pc[c] = "gt_run"
  /\ LET all == MatchPaths(nodes, edges, op[c].seedEntityIds, loc[c].edgeTypes, loc[c].depth)
         n == Min(loc[c].limit, Cardinality(all))
     IN \E paths \in SUBSET all :
          /\ Cardinality(paths) = n
          /\ hist' = [hist EXCEPT ![c].paths = paths]
          /\ Finish(c, GraphOk("graphTraverse",
                               GraphOfSegments(Flatten(Records(paths)), << >>, << >>)))
  /\ UNCHANGED <<entities, assertions, corrections, nodes, edges, clock, points, signals, entityRows, batch, stream, worlds>>

\* The graph call throws: the call rejects.
GtFail(c) ==
  /\ pc[c] = "gt_run"
  /\ Finish(c, Failure("graphTraverse", "Upstream"))
  /\ UNCHANGED <<entities, assertions, corrections, nodes, edges, clock, hist, points, signals, entityRows, batch, stream, worlds>>

\* part_009 140: hops when the caller gives none, and their range
ExplainDefaultHops == 4
ExplainMinHops == 1
ExplainMaxHops == 6

\* What callers pass to explainPath as the two entities, edgeTypes and maxHops.
ExplainEndInputs == {<<"e1", "e2">>, <<"e1", "e3">>, <<"e3", "e2">>, <<"e1", " ">>}
ExplainTypeInputs == {Null, Some(<<"BENEFITS_FROM">>)}
MaxHopsInputs == {Null, Some(0)}

\* part_009 143-145: shortestPath((a {entityId: $from})-[:types*..maxHops]-(b {entityId: $to})),
\* the shortest of the paths between the two nodes
ShortestPaths(ns, es, from, to, types, maxHops) ==
  IF from \notin ns \/ to \notin ns THEN {}
  ELSE LET all == {p \in PathsFrom({e \in es : InList(e.type, types)}, from, {}, maxHops) :
                     p[Len(p)].end = to}
       IN {p \in all : \A q \in all : Len(p) <= Len(q)}

\* part_009 184-189: edges.push for the segment
SegmentEdge(seg) ==
  LET rel == seg.relationship
  IN [type |-> rel.type, from |-> seg.start, to |-> seg.end,
      properties |-> [assertionId |-> rel.assertionId,
                      confidence |-> rel.confidence,
                      sourceDocumentId |-> rel.sourceDocumentId,
                      sourceChunkId |-> rel.sourceChunkId,
                      validFrom |-> rel.validFrom,
                      validTo |-> rel.validTo,
                      status |-> rel.status]]

\* part_009 157-192: the nodes by id and every segment's edge
RECURSIVE GraphOfPath(_, _, _)
GraphOfPath(segs, ns, es) ==
  IF segs = << >> THEN [nodes |-> ns, edges |-> es]
  ELSE GraphOfPath(Tail(segs),
                   AddNode(AddNode(ns, Head(segs).start), Head(segs).end),
                   Append(es, SegmentEdge(Head(segs))))

\* what an explainPath has been asked
ExplainHist(from, to, types, maxHops) ==
  [committed |-> FALSE, wrote |-> FALSE, graphCalls |-> 0, projected |-> FALSE,
   fromEntityId |-> from, toEntityId |-> to, edgeTypes |-> types, maxHops |-> maxHops]

\* part_009 129-145: a request arrives; without both entities it is answered
\* at once. One request is served at a time.
StartExplain(c) ==
  /\ FirstFree(c)
  /\ \A d \in Calls : pc[d] = "idle"
  /\ \E ends \in ExplainEndInputs, types \in ExplainTypeInputs, maxHops \in MaxHopsInputs :
       /\ hist' = [hist EXCEPT ![c] = ExplainHist(ends[1], ends[2], types, maxHops)]
       /\ IF Trim(ends[1]) = "" \/ Trim(ends[2]) = ""
            THEN Finish(c, GraphOk("explainPath", [nodes |-> << >>, edges |-> << >>]))
            ELSE /\ op' = [op EXCEPT ![c] = [name |-> "explainPath",
                                             fromEntityId |-> Trim(ends[1]),
                                             toEntityId |-> Trim(ends[2])]]
                 /\ loc' = [loc EXCEPT ![c] =
                              [edgeTypes |-> SanitizeEdgeTypes(types),
                               maxHops |-> ClampInt(Val(Coalesce(maxHops, Some(ExplainDefaultHops))),
                                                    ExplainMinHops, ExplainMaxHops)]]
                 /\ pc' = [pc EXCEPT ![c] = "ep_run"]
                 /\ result' = [result EXCEPT ![c] = NoResult]
  /\ UNCHANGED <<entities, assertions, corrections, nodes, edges, clock, points, signals,
                 entityRows, batch, stream, worlds>>

\* part_009 147-192: the query returns one shortest path, any of them, or none
EpRun(c) ==
  /\ pc[c] = "ep_run"
  /\ LET paths == ShortestPaths(nodes, edges, op[c].fromEntityId, op[c].toEntityId,
                                loc[c].edgeTypes, loc[c].maxHops)
     IN IF paths = {}
          THEN Finish(c, GraphOk("explainPath", [nodes |-> << >>, edges |-> << >>]))
          ELSE \E p \in paths : Finish(c, GraphOk("explainPath", GraphOfPath(p, << >>, << >>)))
  /\ UNCHANGED <<entities, assertions, corrections, nodes, edges, clock, hist, points, signals,
                 entityRows, batch, stream, worlds>>

\* The graph call throws: the call rejects.
EpFail(c) ==
  /\ pc[c] = "ep_run"
  /\ Finish(c, Failure("explainPath", "Upstream"))
  /\ UNCHANGED <<entities, assertions, corrections, nodes, edges, clock, hist, points, signals,
                 entityRows, batch, stream, worlds>>

\* Relations whose assertions extraction has stored and projected, and the
\* ones among them a retract has closed since.
TraverseRelations ==
  <<Rel("e1", "benefits from", "e2"), Rel("e2", "EXPOSED", "e3"),
    Rel("e1", "benefits from", "e2"), Rel("e3", "benefits from", "e1")>>

StoredAssertion(i) == ExtractedAssertionRow(i, TraverseRelations[i], "d1", "c1", i)
ProjectedEdge(i) == EdgeOf(ExtractedEdgeRow(i, TraverseRelations[i], "d1", "c1", i))
\* the instant of the retract
RetractedAt == Len(TraverseRelations) + 1

InitTraverse ==
  /\ entities = {"e1", "e2", "e3"}
  /\ nodes = {"e1", "e2", "e3"}
  /\ \E kept \in SUBSET (1..Len(TraverseRelations)) :
       \E closed \in SUBSET (kept \cap {3}) :
         /\ assertions = [i \in kept |->
                            IF i \in closed
                              THEN [StoredAssertion(i) EXCEPT !.status = "retracted",
                                                             !.validTo = Some(RetractedAt)]
                              ELSE StoredAssertion(i)]
         /\ corrections = {[id |-> RetractedAt, targetAssertionId |-> i,
                            action |-> "retract", newAssertionId |-> Null] : i \in closed}
         /\ edges = {IF i \in closed
                      THEN [ProjectedEdge(i) EXCEPT !.status = "retracted",
                                                    !.validTo = Some(RetractedAt)]
                      ELSE ProjectedEdge(i) : i \in kept}
         /\ clock = IF closed = {} THEN Len(TraverseRelations) ELSE RetractedAt
  /\ pc = [c \in Calls |-> "idle"]
  /\ op = [c \in Calls |-> IdleOp]
  /\ loc = [c \in Calls |-> IdleLoc]
  /\ result = [c \in Calls |-> NoResult]
  /\ hist = [c \in Calls |-> IdleHist]
  /\ points = {}
  /\ signals = {}
  /\ entityRows = << >>
  /\ batch = NoBatch
  /\ stream = << >>
  /\ worlds = NoWorlds

NextTraverse ==
  \/ \E c \in Calls : StartTraverse(c)
  \/ \E c \in Calls : GtRun(c)
  \/ \E c \in Calls : GtFail(c)
  \/ \E c \in Calls : StartExplain(c)
  \/ \E c \in Calls : EpRun(c)
  \/ \E c \in Calls : EpFail(c)

SpecTraverse == InitTraverse /\ [][NextTraverse]_vars

\* ------------------------------------------------------------- facts query
\* apply.ts 211: the limit when the caller gives none, and its largest value
FactsDefaultLimit == 50
FactsMaxLimit == 200

\* apply.ts 211
FactsLimit(limit) == Max(1, Min(Val(Coalesce(limit, Some(FactsDefaultLimit))), FactsMaxLimit))

\* What callers pass as subjectEntityId, predicate, objectEntityId, status
\* and limit.
FactsSubjectInputs == {Null, Some("e1")}
FactsPredicateInputs == {Null, Some(""), Some("BENEFITS_FROM")}
FactsObjectInputs == {Null, Some("e2")}
FactsStatusInputs == {Null, Some("active"), Some("retracted")}
FactsLimitInputs == {Null, Some(0), Some(2)}

FactsOpts(su, pr, ob, st, limit) ==
  [subjectEntityId |-> su, predicate |-> pr, objectEntityId |-> ob, status |-> st,
   limit |-> limit]

\* apply.ts 213-225: the conditions pushed, one per truthy filter
FactsConditions(opts) ==
  {f \in {"subjectEntityId", "predicate", "objectEntityId", "status"} : ~Falsy(opts[f])}

\* the conditions with the status filter left out
FactsWhere_NoStatus(row, opts) ==
  /\ "subjectEntityId" \in FactsConditions(opts) => row.subjectEntityId = Val(opts.subjectEntityId)
  /\ "predicate" \in FactsConditions(opts) => row.predicate = Val(opts.predicate)
  /\ "objectEntityId" \in FactsConditions(opts) => row.objectEntityId = opts.objectEntityId

\* apply.ts 230: and(...conditions) on a row of the table
FactsWhere(row, opts) ==
  /\ "subjectEntityId" \in FactsConditions(opts) => row.subjectEntityId = Val(opts.subjectEntityId)
  /\ "predicate" \in FactsConditions(opts) => row.predicate = Val(opts.predicate)
  /\ "objectEntityId" \in FactsConditions(opts) => row.objectEntityId = opts.objectEntityId
  /\ "status" \in FactsConditions(opts) => row.status = Val(opts.status)

\* apply.ts 232-261: the columns selected, as returned
AssertionRowOf(r) ==
  [id |-> r.id, subjectEntityId |-> r.subjectEntityId, predicate |-> r.predicate,
   objectEntityId |-> r.objectEntityId, confidence |-> r.confidence,
   sourceDocumentId |-> r.sourceDocumentId, sourceChunkId |-> r.sourceChunkId,
   validFrom |-> r.validFrom, validTo |-> r.validTo, status |-> r.status]

\* apply.ts 246: the rows ids of tbl by validFrom, latest first
RECURSIVE ByValidFromDesc(_, _)
ByValidFromDesc(tbl, ids) ==
  IF ids = {} THEN << >>
  ELSE LET top == CHOOSE a \in ids : \A b \in ids : tbl[a].validFrom >= tbl[b].validFrom
       IN <<AssertionRowOf(tbl[top])>> \o ByValidFromDesc(tbl, ids \ {top})

FactsOk(rows) == [kind |-> "ok", call |-> "factsQuery", rows |-> rows]

\* what a facts query has been asked
FactsHist(opts) ==
  [committed |-> FALSE, wrote |-> FALSE, graphCalls |-> 0, projected |-> FALSE, opts |-> opts]

\* apply.ts 202-228: a request arrives; without a condition it is answered
\* at once with no rows. One query is served at a time.
StartFacts(c) ==
  /\ FirstFree(c)
  /\ \A d \in Calls : pc[d] = "idle"
  /\ \E su \in FactsSubjectInputs, pr \in FactsPredicateInputs, ob \in FactsObjectInputs,
        st \in FactsStatusInputs, limit \in FactsLimitInputs :
       LET opts == FactsOpts(su, pr, ob, st, limit)
       IN /\ hist' = [hist EXCEPT ![c] = FactsHist(opts)]
          /\ IF FactsConditions(opts) = {}
               THEN Finish(c, FactsOk(<< >>))
               ELSE /\ op' = [op EXCEPT ![c] = [name |-> "factsQuery", opts |-> opts]]
                    /\ pc' = [pc EXCEPT ![c] = "fq_select"]
                    /\ result' = [result EXCEPT ![c] = NoResult]
                    /\ UNCHANGED loc
  /\ UNCHANGED <<entities, assertions, corrections, nodes, edges, clock, points, signals, entityRows, batch, stream, worlds>>

\* apply.ts 232-261: the store answers with the first limit matching rows,
\* latest validFrom first, rows of equal validFrom in any order
FqSelect(c) ==
  /\ pc[c] = "fq_select"
  /\ LET all == {id \in DOMAIN assertions : FactsWhere(assertions[id], op[c].opts)}
         n == Min(FactsLimit(op[c].opts.limit), Cardinality(all))
     IN \E ids \in SUBSET all :
          /\ Cardinality(ids) = n
          /\ \A a \in ids, b \in all \ ids : assertions[a].validFrom >= assertions[b].validFrom
          /\ Finish(c, FactsOk(ByValidFromDesc(assertions, ids)))
  /\ UNCHANGED <<entities, assertions, corrections, nodes, edges, clock, hist, points, signals, entityRows, batch, stream, worlds>>

\* The store call throws: the call rejects.
FqFail(c) ==
  /\ pc[c] = "fq_select"
  /\ Finish(c, Failure("factsQuery", "Upstream"))
  /\ UNCHANGED <<entities, assertions, corrections, nodes, edges, clock, hist, points, signals, entityRows, batch, stream, worlds>>

\* The fact store after extraction and a retract, as for the traversals.
InitFacts == InitTraverse

NextFacts ==
  \/ \E c \in Calls : StartFacts(c)
  \/ \E c \in Calls : FqSelect(c)
  \/ \E c \in Calls : FqFail(c)

SpecFacts == InitFacts /\ [][NextFacts]_vars

\* ---------------------------------------------------------- signal screener
\* signals/ingest.ts 182-183: the series keys when the caller gives none
DefaultEpsKey == "eps_ntm_consensus"
DefaultFlowKey == "fund_flow_4w_usd"

\* signals/ingest.ts 184-188: the windows, thresholds and limit when the caller
\* gives none, and the ranges of the windows and of the limit
DefaultEpsLookbackDays == 90
DefaultFlowLookbackDays == 28
MinLookbackDays == 7
MaxLookbackDays == 365
DefaultMinDelta == 0
DefaultMinSum == 0
ScreenDefaultLimit == 50
ScreenMaxLimit == 200

\* CURRENT_DATE of the store, as a day number
Today == 100

\* A row of table signals; values are kept in whole units.
Signal(cik, key, day, value) ==
  [cik |-> cik, signalKey |-> key, asOfDate |-> day, value |-> value, source |-> "manual",
   subjectEntityId |-> Null]

\* The observations ingestion may have stored, one per (cik, key, day).
SignalUniverse ==
  {Signal("1", DefaultEpsKey, 95, 2), Signal("1", DefaultEpsKey, 50, 1),
   Signal("1", DefaultEpsKey, 5, 0), Signal("1", DefaultFlowKey, 95, 3),
   Signal("1", DefaultFlowKey, 80, 0 - 1),
   Signal("2", DefaultEpsKey, 96, 5), Signal("2", DefaultEpsKey, 50, 1),
   Signal("2", DefaultFlowKey, 90, 2)}

\* What callers pass as ciks, the lookback days, the thresholds and limit.
ScreenCikInputs == {Null, Some(<<"02">>), Some(<<" ">>)}
LookbackInputs == {Null, Some(1)}
MinDeltaInputs == {Null, Some(1)}
MinSumInputs == {Null, Some(2)}
ScreenLimitInputs == {Null, Some(0)}

\* signals/ingest.ts 131-133: trim, then strip leading zeros
ScreenNormalizeCik(cik) == IF Trim(cik) = "02" THEN "2" ELSE StripLeadingZeros(Trim(cik))

\* signals/ingest.ts 184-185
LookbackDays(days, default) == Max(MinLookbackDays, Min(Val(Coalesce(days, Some(default))), MaxLookbackDays))

\* signals/ingest.ts 188
ScreenLimit(limit) == Max(1, Min(Val(Coalesce(limit, Some(ScreenDefaultLimit))), ScreenMaxLimit))

\* signals/ingest.ts 190: (input.ciks ?? []).map(normalizeCik).filter(Boolean)
ScreenCiks(ciks) ==
  LET NonBlank(x) == x # ""
      given == Val(Coalesce(ciks, Some(<< >>)))
  IN SelectSeq([i \in 1..Len(given) |-> ScreenNormalizeCik(given[i])], NonBlank)

\* signals/ingest.ts 207-217: WITH universe
Universe(sigs, ciks) ==
  {s.cik : s \in {x \in sigs : Len(ciks) = 0 \/ InList(x.cik, ciks)}}

\* signals/ingest.ts 218-224, 252-258: the rows of key in the window of days
Window(sigs, universe, key, days) ==
  {s \in sigs : s.cik \in universe /\ s.signalKey = key /\ s.asOfDate >= Today - days}

\* DISTINCT ON (cik) ... ORDER BY cik, as_of_date DESC / ASC
LatestOf(rows) == CHOOSE s \in rows : \A t \in rows : s.asOfDate >= t.asOfDate
EarliestOf(rows) == CHOOSE s \in rows : \A t \in rows : s.asOfDate <= t.asOfDate

RECURSIVE SumValues(_)
SumValues(rows) ==
  IF rows = {} THEN 0
  ELSE LET s == CHOOSE x \in rows : TRUE IN s.value + SumValues(rows \ {s})

\* the WHERE clause with both comparisons taken as not below
Passes_OrEqual(delta, sum, minDelta, minSum) == delta >= minDelta /\ sum >= minSum

\* signals/ingest.ts 280-281
Passes(delta, sum, minDelta, minSum) == delta > minDelta /\ sum > minSum

\* signals/ingest.ts 225-279, 293-309: the row of one cik of eps_join JOIN flow_sum
ScreenRow(eps, flows, epsKey, flowKey) ==
  [cik |-> LatestOf(eps).cik,
   eps |-> [key |-> epsKey,
            earliestDate |-> EarliestOf(eps).asOfDate, earliestValue |-> EarliestOf(eps).value,
            latestDate |-> LatestOf(eps).asOfDate, latestValue |-> LatestOf(eps).value,
            delta |-> LatestOf(eps).value - EarliestOf(eps).value],
   flows |-> [key |-> flowKey,
              startDate |-> EarliestOf(flows).asOfDate, endDate |-> LatestOf(flows).asOfDate,
              sum |-> SumValues(flows)]]

\* signals/ingest.ts 212-281: the rows the query selects, before ORDER BY and LIMIT
ScreenRows(sigs, in) ==
  LET universe == Universe(sigs, in.ciks)
      Eps(cik) == {s \in Window(sigs, universe, in.epsKey, in.epsLookbackDays) : s.cik = cik}
      Flows(cik) == {s \in Window(sigs, universe, in.flowKey, in.flowLookbackDays) : s.cik = cik}
      joined == {ScreenRow(Eps(cik), Flows(cik), in.epsKey, in.flowKey) :
                   cik \in {u \in universe : Eps(u) # {} /\ Flows(u) # {}}}
  IN {r \in joined : Passes(r.eps.delta, r.flows.sum, in.epsMinDelta, in.flowMinSum)}

\* signals/ingest.ts 311-318
ScreenOk(in, rows) ==
  [kind |-> "ok", call |-> "screenSignals", epsKey |-> in.epsKey, flowKey |-> in.flowKey,
   epsWindowDays |-> in.epsLookbackDays, flowWindowDays |-> in.flowLookbackDays,
   matched |-> Len(rows), rows |-> rows]

\* what a screening has been asked
ScreenHist(input) ==
  [committed |-> FALSE, wrote |-> FALSE, graphCalls |-> 0, projected |-> FALSE, input |-> input]

\* signals/ingest.ts 179-190: a request arrives and its parameters are fixed.
\* One screening is served at a time.
StartScreen(c) ==
  /\ FirstFree(c)
  /\ \A d \in Calls : pc[d] = "idle"
  /\ \E ciks \in ScreenCikInputs, epsDays \in LookbackInputs, flowDays \in LookbackInputs,
        minDelta \in MinDeltaInputs, minSum \in MinSumInputs, limit \in ScreenLimitInputs :
       /\ hist' = [hist EXCEPT ![c] =
                     ScreenHist([ciks |-> ciks, epsLookbackDays |-> epsDays,
                                 flowLookbackDays |-> flowDays, epsMinDelta |-> minDelta,
                                 flowMinSum |-> minSum, limit |-> limit])]
       /\ op' = [op EXCEPT ![c] = [name |-> "screenSignals"]]
       /\ loc' = [loc EXCEPT ![c] =
                    [epsKey |-> DefaultEpsKey, flowKey |-> DefaultFlowKey,
                     epsLookbackDays |-> LookbackDays(epsDays, DefaultEpsLookbackDays),
                     flowLookbackDays |-> LookbackDays(flowDays, DefaultFlowLookbackDays),
                     epsMinDelta |-> Val(Coalesce(minDelta, Some(DefaultMinDelta))),
                     flowMinSum |-> Val(Coalesce(minSum, Some(DefaultMinSum))),
                     limit |-> ScreenLimit(limit), ciks |-> ScreenCiks(ciks)]]
       /\ pc' = [pc EXCEPT ![c] = "sc_run"]
       /\ result' = [result EXCEPT ![c] = NoResult]
  /\ UNCHANGED <<entities, assertions, corrections, nodes, edges, clock, points, signals, entityRows, batch, stream, worlds>>

\* signals/ingest.ts 212-318: the store answers with the first limit selected
\* rows, largest flow sum first, rows of equal sum in any order
ScRun(c) ==
  /\ pc[c] = "sc_run"
  /\ LET all == ScreenRows(signals, loc[c])
         n == Min(loc[c].limit, Cardinality(all))
     IN \E rows \in [1..n -> all] :
          /\ \A i, j \in 1..n : i < j => rows[i] # rows[j] /\ rows[i].flows.sum >= rows[j].flows.sum
          /\ \A i \in 1..n : \A r \in all \ Range(rows) : rows[i].flows.sum >= r.flows.sum
          /\ Finish(c, ScreenOk(loc[c], rows))
  /\ UNCHANGED <<entities, assertions, corrections, nodes, edges, clock, hist, points, signals, entityRows, batch, stream, worlds>>

\* The store call throws: the call rejects.
ScFail(c) ==
  /\ pc[c] = "sc_run"
  /\ Finish(c, Failure("screenSignals", "Upstream"))
  /\ UNCHANGED <<entities, assertions, corrections, nodes, edges, clock, hist, points, signals, entityRows, batch, stream, worlds>>

\* The signals table after ingestion has stored some observations.
InitScreen ==
  /\ signals \in SUBSET SignalUniverse
  /\ entities = {}
  /\ entityRows = << >>
  /\ batch = NoBatch
  /\ stream = << >>
  /\ worlds = NoWorlds
  /\ assertions = << >>
  /\ corrections = {}
  /\ nodes = {}
  /\ edges = {}
  /\ clock = 0
  /\ pc = [c \in Calls |-> "idle"]
  /\ op = [c \in Calls |-> IdleOp]
  /\ loc = [c \in Calls |-> IdleLoc]
  /\ result = [c \in Calls |-> NoResult]
  /\ hist = [c \in Calls |-> IdleHist]
  /\ points = {}

NextScreen ==
  \/ \E c \in Calls : StartScreen(c)
  \/ \E c \in Calls : ScRun(c)
  \/ \E c \in Calls : ScFail(c)

SpecScreen == InitScreen /\ [][NextScreen]_vars

\* ------------------------------------------------- entities and signal ingest
\* A row of table entities without its id: identifiers are kept as the set
\* of their <<key, value>> pairs, aliases as the list stored.
EntityRow(type, name, aliases, identifiers) ==
  [type |-> type, canonicalName |-> name, aliases |-> aliases, identifiers |-> identifiers]

\* the keys of a set of identifier pairs
KeysOf(ids) == {p[1] : p \in ids}

\* client.ts 166-171: { ...existing, ...(incoming ?? {}) }
MergeIdentifiers(existing, incoming) ==
  {p \in existing : p[1] \notin KeysOf(incoming)} \cup incoming

\* [...new Set(values)]: the first occurrence of each value, in order
RECURSIVE Distinct(_)
Distinct(values) ==
  IF values = << >> THEN << >>
  ELSE LET NotLast(v) == v # values[Len(values)]
       IN Append(Distinct(SelectSeq(SubSeq(values, 1, Len(values) - 1), NotLast)),
                 values[Len(values)])

\* values.filter(Boolean)
Truthy(v) == v # ""
\* client.ts 162-164
UniqStrings(values) ==
  Distinct(SelectSeq([i \in 1..Len(values) |-> Trim(values[i])], Truthy))

\* canonical_name ILIKE %name%, on the names below
Ilike(canonicalName, name) ==
  canonicalName = name \/ (canonicalName = "Acme Corp" /\ name = "Acme")

\* What findOrCreateEntity is called with by the extractions.
EntityNameInputs == {"Acme"}
AliasInputs == {<<"A">>, <<"B", " ">>}
IdentifierInputs == {{<<"CIK", "1">>}, {<<"ticker", "ACME">>}}

\* What the filer's submission gives upsertCompanyEntityFromSubmission.
SubmissionCikInputs == {"01"}
SubmissionNameInputs == {"Acme Corp"}
SubmissionTickerInputs == {Null, Some("acme")}

\* ticker?.trim()?.toUpperCase(), on the tickers above
UpperCase(str) == IF str = "acme" THEN "ACME" ELSE str

\* The entity table gets no more rows than this in one behaviour.
MaxEntities == 2

\* what a call on the entity table or a signal ingestion has been asked,
\* with the entities it read
EntityHist(input, read) ==
  [committed |-> FALSE, wrote |-> FALSE, graphCalls |-> 0, projected |-> FALSE,
   input |-> input, read |-> read]

\* client.ts 194-211: findOrCreateEntity is called
StartFindOrCreate(c) ==
  /\ FirstFree(c)
  /\ \E name \in EntityNameInputs, aliases \in AliasInputs, identifiers \in IdentifierInputs :
       LET in == [type |-> "company", name |-> name, aliases |-> aliases,
                  identifiers |-> identifiers]
       IN /\ op' = [op EXCEPT ![c] = [name |-> "findOrCreateEntity", type |-> in.type,
                                       entityName |-> name, aliases |-> aliases,
                                       identifiers |-> identifiers]]
          /\ hist' = [hist EXCEPT ![c] = EntityHist(in, {})]
  /\ pc' = [pc EXCEPT ![c] = "fe_select"]
  /\ result' = [result EXCEPT ![c] = NoResult]
  /\ UNCHANGED <<entities, assertions, corrections, nodes, edges, clock, loc, points, signals, entityRows, batch, stream, worlds>>

\* client.ts 203-211: SELECT ... WHERE type AND canonical_name LIMIT 1; the
\* row read, any of the matching ones, is kept as it is now
FeSelect(c) ==
  /\ pc[c] = "fe_select"
  /\ LET found == {id \in DOMAIN entityRows :
                     /\ entityRows[id].type = op[c].type
                     /\ entityRows[id].canonicalName = Trim(op[c].entityName)}
     IN IF found = {}
          THEN /\ loc' = [loc EXCEPT ![c] = [existing |-> Null]]
               /\ UNCHANGED hist
          ELSE \E id \in found :
                 /\ loc' = [loc EXCEPT ![c] = [existing |-> Some([id |-> id] @@ entityRows[id])]]
                 /\ hist' = [hist EXCEPT ![c].read = {id}]
  /\ pc' = [pc EXCEPT ![c] = "fe_write"]
  /\ UNCHANGED <<entities, assertions, corrections, nodes, edges, clock, op, result, points, signals, entityRows, batch, stream, worlds>>

FoundEntity(id, type, name) ==
  [kind |-> "ok", call |-> "findOrCreateEntity", id |-> id, type |-> type, name |-> name]

\* client.ts 213-241: the row read is merged with the input and written
\* back when that changes it
FeMerge(c) ==
  /\ pc[c] = "fe_write"
  /\ loc[c].existing # Null
  /\ LET row == Val(loc[c].existing)
         mergedAliases == UniqStrings(row.aliases \o op[c].aliases)
         mergedIdentifiers == MergeIdentifiers(row.identifiers, op[c].identifiers)
     IN /\ IF mergedAliases # row.aliases \/ mergedIdentifiers # row.identifiers
             THEN entityRows' = [entityRows EXCEPT ![row.id].aliases = mergedAliases,
                                                   ![row.id].identifiers = mergedIdentifiers]
             ELSE UNCHANGED entityRows
        /\ Finish(c, FoundEntity(row.id, op[c].type, Trim(op[c].entityName)))
  /\ UNCHANGED <<entities, assertions, corrections, nodes, edges, clock, hist, points, signals, batch, stream, worlds>>

\* client.ts 244-254: no row was read, one is inserted under a fresh id
FeInsert(c) ==
  /\ pc[c] = "fe_write"
  /\ loc[c].existing = Null
  /\ Cardinality(DOMAIN entityRows) < MaxEntities
  /\ clock' = clock + 1
  /\ entityRows' = [id \in DOMAIN entityRows \cup {clock'} |->
                      IF id = clock'
                        THEN EntityRow(op[c].type, Trim(op[c].entityName), UniqStrings(op[c].aliases),
                                       op[c].identifiers)
                        ELSE entityRows[id]]
  /\ entities' = entities \cup {clock'}
  /\ Finish(c, FoundEntity(clock', op[c].type, Trim(op[c].entityName)))
  /\ UNCHANGED <<assertions, corrections, nodes, edges, hist, points, signals, batch, stream, worlds>>

\* edgar/ingest.ts 50-52
EdgarNormalizeCik(cik) == StripLeadingZeros(cik)

\* edgar/ingest.ts 54-115: the company of a filer's submission is looked up
\* by cik or name and updated, or inserted
UpsertCompanyStub(c) ==
  /\ FirstFree(c)
  /\ \E rawCik \in SubmissionCikInputs, name \in SubmissionNameInputs,
        rawTicker \in SubmissionTickerInputs :
       LET cik == EdgarNormalizeCik(rawCik)
           ticker == IF rawTicker = Null THEN "" ELSE UpperCase(Trim(Val(rawTicker)))
           found == {id \in DOMAIN entityRows :
                       /\ entityRows[id].type = "company"
                       /\ \/ <<"cik", cik>> \in entityRows[id].identifiers
                          \/ <<"CIK", cik>> \in entityRows[id].identifiers
                          \/ Ilike(entityRows[id].canonicalName, name)}
           NextIdentifiers(old) == MergeIdentifiers(old, {<<"cik", cik>>}
                                              \cup IF ticker = "" THEN {} ELSE {<<"ticker", ticker>>})
           Aliases(old) == Distinct(SelectSeq(old \o <<name, ticker>>, Truthy))
       IN IF found = {}
            THEN /\ Cardinality(DOMAIN entityRows) < MaxEntities
                 /\ clock' = clock + 1
                 /\ entityRows' = [id \in DOMAIN entityRows \cup {clock'} |->
                                     IF id = clock'
                                       THEN EntityRow("company", name, Aliases(<< >>), NextIdentifiers({}))
                                       ELSE entityRows[id]]
                 /\ entities' = entities \cup {clock'}
            ELSE \E id \in found :
                   /\ entityRows' = [entityRows EXCEPT
                                       ![id].canonicalName = name,
                                       ![id].identifiers = NextIdentifiers(entityRows[id].identifiers),
                                       ![id].aliases = Aliases(entityRows[id].aliases)]
                   /\ UNCHANGED <<clock, entities>>
  /\ hist' = [hist EXCEPT ![c] = IdleHist]
  /\ Finish(c, [kind |-> "ok", call |-> "upsertCompanyEntityFromSubmission"])
  /\ UNCHANGED <<assertions, corrections, nodes, edges, points, signals, batch, stream, worlds>>

\* signals/ingest.ts 8-10
SignalNormalizeCik(cik) == StripLeadingZeros(Trim(cik))

\* A row given to ingestSignals; the value is absent when it is not a finite
\* number.
SignalIngestRow(cik, value) ==
  [cik |-> cik, signalKey |-> DefaultEpsKey, asOfDate |-> 95, value |-> value]

SignalRowInputs ==
  {<<SignalIngestRow("01", Some(1))>>,
   <<SignalIngestRow(" ", Some(1)), SignalIngestRow("1", Some(2))>>,
   <<SignalIngestRow("1", Null)>>}

\* signals/ingest.ts 12-26: a company whose identifiers have cik under 'CIK'
ResolvableByCik(rows, cik) ==
  {id \in DOMAIN rows : rows[id].type = "company" /\ <<"CIK", cik>> \in rows[id].identifiers}

\* signals/ingest.ts 47-52: ingestSignals is called
StartIngestSignals(c) ==
  /\ FirstFree(c)
  /\ \E rows \in SignalRowInputs :
       /\ op' = [op EXCEPT ![c] = [name |-> "ingestSignals", rows |-> rows]]
       /\ hist' = [hist EXCEPT ![c] = EntityHist(rows, {})]
  /\ loc' = [loc EXCEPT ![c] = [i |-> 1, inserted |-> 0, updated |-> 0,
                                resolvedEntityIds |-> 0, subjectEntityId |-> Null]]
  /\ pc' = [pc EXCEPT ![c] = "is_row"]
  /\ result' = [result EXCEPT ![c] = NoResult]
  /\ UNCHANGED <<entities, assertions, corrections, nodes, edges, clock, points, signals, entityRows, batch, stream, worlds>>

\* signals/ingest.ts 54-63: the next row is checked and its company looked up
IsResolve(c) ==
  /\ pc[c] = "is_row"
  /\ loc[c].i <= Len(op[c].rows)
  /\ LET r == op[c].rows[loc[c].i]
         cik == SignalNormalizeCik(r.cik)
         found == ResolvableByCik(entityRows, cik)
     IN IF cik = "" \/ r.value = Null
          THEN /\ loc' = [loc EXCEPT ![c].i = @ + 1]
               /\ UNCHANGED <<pc, hist>>
          ELSE /\ \E subject \in IF found = {} THEN {Null} ELSE {Some(id) : id \in found} :
                    loc' = [loc EXCEPT ![c].subjectEntityId = subject,
                                       ![c].resolvedEntityIds =
                                          IF subject = Null THEN @ ELSE @ + 1]
               /\ hist' = [hist EXCEPT ![c].read =
                             {id \in DOMAIN entityRows :
                                /\ entityRows[id].type = "company"
                                /\ \E p \in entityRows[id].identifiers : p[2] = cik}]
               /\ pc' = [pc EXCEPT ![c] = "is_upsert"]
  /\ UNCHANGED <<entities, assertions, corrections, nodes, edges, clock, op, result, points, signals, entityRows, batch, stream, worlds>>

\* signals/ingest.ts 65-118: the row is inserted, or replaces the one with
\* its (cik, signalKey, asOfDate, source)
IsUpsert(c) ==
  /\ pc[c] = "is_upsert"
  /\ LET r == op[c].rows[loc[c].i]
         new == [Signal(SignalNormalizeCik(r.cik), r.signalKey, r.asOfDate, Val(r.value))
                   EXCEPT !.subjectEntityId = loc[c].subjectEntityId]
         Same(s) == /\ s.cik = new.cik
                    /\ s.signalKey = new.signalKey
                    /\ s.asOfDate = new.asOfDate
                    /\ s.source = new.source
         existed == {s \in signals : Same(s)}
     IN /\ signals' = (signals \ existed) \cup {new}
        /\ loc' = [loc EXCEPT ![c].i = @ + 1,
                              ![c].inserted = IF existed = {} THEN @ + 1 ELSE @,
                              ![c].updated = IF existed = {} THEN @ ELSE @ + 1]
  /\ pc' = [pc EXCEPT ![c] = "is_row"]
  /\ UNCHANGED <<entities, assertions, corrections, nodes, edges, clock, op, result, hist, points, entityRows, batch, stream, worlds>>

\* signals/ingest.ts 121: every row has been handled
IsDone(c) ==
  /\ pc[c] = "is_row"
  /\ loc[c].i > Len(op[c].rows)
  /\ Finish(c, [kind |-> "ok", call |-> "ingestSignals", inserted |-> loc[c].inserted,
                updated |-> loc[c].updated, resolvedEntityIds |-> loc[c].resolvedEntityIds])
  /\ UNCHANGED <<entities, assertions, corrections, nodes, edges, clock, hist, points, signals, entityRows, batch, stream, worlds>>

\* A store call of one of the three throws: the call rejects.
EntityCallFail(c) ==
  /\ pc[c] \in {"fe_select", "fe_write", "is_row", "is_upsert"}
  /\ Finish(c, Failure(op[c].name, "Upstream"))
  /\ UNCHANGED <<entities, assertions, corrections, nodes, edges, clock, hist, points, signals, entityRows, batch, stream, worlds>>

\* Extractions, up to two at a time, look entities up and create them.
NextEntities ==
  \/ \E c \in Calls : StartFindOrCreate(c)
  \/ \E c \in Calls : FeSelect(c)
  \/ \E c \in Calls : FeMerge(c)
  \/ \E c \in Calls : FeInsert(c)
  \/ \E c \in Calls : EntityCallFail(c)

SpecEntities == Init /\ [][NextEntities]_vars

\* The entity table before any filing is ingested: empty, or holding a
\* company an extraction has created with its CIK among the identifiers.
InitSignals ==
  /\ entityRows \in {<< >>, <<EntityRow("company", "Acme", <<"A">>, {<<"CIK", "1">>})>>}
  /\ entities = DOMAIN entityRows
  /\ batch = NoBatch
  /\ stream = << >>
  /\ worlds = NoWorlds
  /\ clock = Cardinality(entities)
  /\ signals = {}
  /\ assertions = << >>
  /\ corrections = {}
  /\ nodes = {}
  /\ edges = {}
  /\ pc = [c \in Calls |-> "idle"]
  /\ op = [c \in Calls |-> IdleOp]
  /\ loc = [c \in Calls |-> IdleLoc]
  /\ result = [c \in Calls |-> NoResult]
  /\ hist = [c \in Calls |-> IdleHist]
  /\ points = {}

\* Filings and signals are ingested, up to two requests at a time.
NextSignals ==
  \/ \E c \in Calls : UpsertCompanyStub(c)
  \/ \E c \in Calls : StartIngestSignals(c)
  \/ \E c \in Calls : IsResolve(c)
  \/ \E c \in Calls : IsUpsert(c)
  \/ \E c \in Calls : IsDone(c)
  \/ \E c \in Calls : EntityCallFail(c)

SpecSignals == InitSignals /\ [][NextSignals]_vars

\* ----------------------------------------------------------- bulk ingestion
\* What a bulk request carries: the ciks, whether to extract, whether to
\* stream, and the two concurrency limits. Every worker of a limit runs in
\* one of the slots of Calls.
BulkCikInputs == {<<"01">>, <<"1", "2">>, <<"2", "01", "3">>}
BulkStreamInputs == {Null, Some(TRUE), Some(FALSE)}
ConcurrencyInputs == {1, 2}

\* the document ingestEdgarLatest stores for a cik, when it stores one
DocumentOf(cik) ==
  CASE cik = "1" -> "d1"
    [] cik = "2" -> "d2"
    [] OTHER -> "d3"

\* route.ts 192-194: write?.(obj), the event appended to the response body
Write(events, write, obj) == IF write THEN Append(events, obj) ELSE events

\* ingested.push(row), extracted.push(row), with the row alone kept
PushRow_Alone(rows, row) == <<row>>

\* route.ts 97, 114, 150, 160: ingested.push(row), extracted.push(row)
PushRow(rows, row) == Append(rows, row)

\* every task of a phase settled as soon as the last one has started
Settled_OnceStarted(b, running) == b.next > Len(b.items)

\* route.ts 84, 132: Promise.all resolves once every task has settled
Settled(b, running) == b.next > Len(b.items) /\ running = 0

\* the workers of the request that are awaiting their call
Running == Cardinality({c \in Calls : pc[c] \in {"bi_run", "bx_run"}})

\* route.ts 171-181: the final result, written as the last event
Finalize(b, extracted) ==
  LET AllOk(rows) == \A i \in 1..Len(rows) : rows[i].ok
      final == [ok |-> AllOk(b.ingested) /\ (extracted = Null \/ AllOk(Val(extracted))),
                requested |-> Len(b.ciks), ingested |-> b.ingested, extracted |-> extracted]
  IN /\ batch' = [b EXCEPT !.phase = "done", !.extracted = extracted, !.final = Some(final)]
     /\ stream' = Write(stream, b.write, [event |-> "done"] @@ final)

\* route.ts 44-82: a bulk request arrives and its run begins
BulkStart ==
  /\ batch.phase = "none"
  /\ \A c \in Calls : pc[c] = "idle"
  /\ \E ciks \in BulkCikInputs, extract \in BOOLEAN, str \in BulkStreamInputs,
        concurrency \in ConcurrencyInputs, extractConcurrency \in ConcurrencyInputs :
       LET write == Val(Coalesce(str, Some(extract)))
       IN /\ batch' = [phase |-> "ingest", ciks |-> ciks, extract |-> extract, write |-> write,
                       concurrency |-> concurrency, extractConcurrency |-> extractConcurrency,
                       items |-> ciks, next |-> 1, ingested |-> << >>, extracted |-> Null,
                       final |-> Null, started |-> [i \in 1..Len(ciks) |-> 0]]
          /\ stream' = Write(<< >>, write,
                             [event |-> "start", requested |-> Len(ciks), extract |-> extract])
  /\ UNCHANGED <<entities, assertions, corrections, nodes, edges, clock, pc, op, loc, result, hist,
                 points, signals, entityRows, worlds>>

\* a worker slot takes the next item of the phase
TakeItem(c, call, at) ==
  /\ pc' = [pc EXCEPT ![c] = at]
  /\ op' = [op EXCEPT ![c] = [name |-> call, item |-> batch.items[batch.next]]]
  /\ batch' = [batch EXCEPT !.next = @ + 1, !.started[batch.next] = @ + 1]

\* the worker in slot c is done with its item
Release(c) ==
  /\ pc' = [pc EXCEPT ![c] = "idle"]
  /\ op' = [op EXCEPT ![c] = IdleOp]

\* route.ts 86-89: the limit lets the next cik in; ingestEdgarLatest is called
BiStart(c) ==
  /\ batch.phase = "ingest"
  /\ FirstFree(c)
  /\ batch.next <= Len(batch.items)
  /\ Running < batch.concurrency
  /\ TakeItem(c, "ingestEdgarLatest", "bi_run")
  /\ stream' = Write(stream, batch.write,
                     [event |-> "ingest.start", cik |-> batch.items[batch.next]])
  /\ UNCHANGED <<entities, assertions, corrections, nodes, edges, clock, loc, result, hist,
                 points, signals, entityRows, worlds>>

\* route.ts 90-106: ingestEdgarLatest returns, with the filing it stored if any
BiDone(c) ==
  /\ pc[c] = "bi_run"
  /\ \E stored \in BOOLEAN :
       LET cik == EdgarNormalizeCik(op[c].item)
           res == [cik |-> cik,
                   documents |-> IF stored THEN <<[documentId |-> DocumentOf(cik)]>> ELSE << >>]
       IN /\ batch' = [batch EXCEPT !.ingested =
                         PushRow(@, [cik |-> res.cik, ok |-> TRUE, result |-> res])]
          /\ stream' = Write(stream, batch.write, [event |-> "ingest.done", cik |-> res.cik])
  /\ Release(c)
  /\ UNCHANGED <<entities, assertions, corrections, nodes, edges, clock, loc, result, hist,
                 points, signals, entityRows, worlds>>

\* route.ts 107-116: ingestEdgarLatest throws
BiError(c) ==
  /\ pc[c] = "bi_run"
  /\ batch' = [batch EXCEPT !.ingested =
                 PushRow(@, [cik |-> op[c].item, ok |-> FALSE, error |-> "Upstream"])]
  /\ stream' = Write(stream, batch.write,
                     [event |-> "ingest.error", cik |-> op[c].item, error |-> "Upstream"])
  /\ Release(c)
  /\ UNCHANGED <<entities, assertions, corrections, nodes, edges, clock, loc, result, hist,
                 points, signals, entityRows, worlds>>

\* route.ts 123-128: the first document of every cik ingested, in row order
RECURSIVE DocIdsOf(_)
DocIdsOf(rows) ==
  IF rows = << >> THEN << >>
  ELSE LET r == Head(rows)
       IN (IF r.ok /\ Len(r.result.documents) > 0
             THEN <<r.result.documents[1].documentId>> ELSE << >>) \o DocIdsOf(Tail(rows))

\* route.ts 119-131, 168-181: every cik has settled; the extraction phase
\* begins, or without it the run ends
BulkAfterIngest ==
  /\ batch.phase = "ingest"
  /\ Settled(batch, Running)
  /\ IF batch.extract
       THEN /\ batch' = [batch EXCEPT !.phase = "extract", !.items = DocIdsOf(batch.ingested),
                                      !.next = 1, !.extracted = Some(<< >>),
                                      !.started = [i \in 1..Len(DocIdsOf(batch.ingested)) |-> 0]]
            /\ UNCHANGED stream
       ELSE Finalize(batch, Null)
  /\ UNCHANGED <<entities, assertions, corrections, nodes, edges, clock, pc, op, loc, result, hist,
                 points, signals, entityRows, worlds>>

\* route.ts 132-140: the limit lets the next document in;
\* extractAndProjectDocument is called
BxStart(c) ==
  /\ batch.phase = "extract"
  /\ FirstFree(c)
  /\ batch.next <= Len(batch.items)
  /\ Running < batch.extractConcurrency
  /\ TakeItem(c, "extractAndProjectDocument", "bx_run")
  /\ stream' = Write(stream, batch.write,
                     [event |-> "extract.start", documentId |-> batch.items[batch.next]])
  /\ UNCHANGED <<entities, assertions, corrections, nodes, edges, clock, loc, result, hist,
                 points, signals, entityRows, worlds>>

\* route.ts 141-153: extractAndProjectDocument returns
BxDone(c) ==
  /\ pc[c] = "bx_run"
  /\ batch' = [batch EXCEPT !.extracted =
                 Some(PushRow(Val(@), [documentId |-> op[c].item, ok |-> TRUE,
                                       result |-> ExOk(1, 0, 1)]))]
  /\ stream' = Write(stream, batch.write,
                     [event |-> "extract.done", documentId |-> op[c].item])
  /\ Release(c)
  /\ UNCHANGED <<entities, assertions, corrections, nodes, edges, clock, loc, result, hist,
                 points, signals, entityRows, worlds>>

\* route.ts 154-163: extractAndProjectDocument throws
BxError(c) ==
  /\ pc[c] = "bx_run"
  /\ batch' = [batch EXCEPT !.extracted =
                 Some(PushRow(Val(@), [documentId |-> op[c].item, ok |-> FALSE,
                                       error |-> "Upstream"]))]
  /\ stream' = Write(stream, batch.write,
                     [event |-> "extract.error", documentId |-> op[c].item,
                      error |-> "Upstream"])
  /\ Release(c)
  /\ UNCHANGED <<entities, assertions, corrections, nodes, edges, clock, loc, result, hist,
                 points, signals, entityRows, worlds>>

\* route.ts 168-181: every document has settled and the run ends
BulkFinish ==
  /\ batch.phase = "extract"
  /\ Settled(batch, Running)
  /\ Finalize(batch, batch.extracted)
  /\ UNCHANGED <<entities, assertions, corrections, nodes, edges, clock, pc, op, loc, result, hist,
                 points, signals, entityRows, worlds>>

NextBulk ==
  \/ BulkStart
  \/ \E c \in Calls : BiStart(c)
  \/ \E c \in Calls : BiDone(c)
  \/ \E c \in Calls : BiError(c)
  \/ BulkAfterIngest
  \/ \E c \in Calls : BxStart(c)
  \/ \E c \in Calls : BxDone(c)
  \/ \E c \in Calls : BxError(c)
  \/ BulkFinish

SpecBulk == Init /\ [][NextBulk]_vars

\* Every call awaited returns or throws, and the event loop runs what is
\* ready to run.
SpecBulkLive == SpecBulk /\ WF_vars(NextBulk)

\* ------------------------------------------- one correction, run twice
\* The same applyCorrection request served on the same fact-store state in
\* two runs, one per call slot, each with a graph of its own: worlds[c] holds
\* the stores run c works on. The fact store holds entities e1, e2, e3 and the
\* active assertion 1 = e1 BENEFITS_FROM e2.
ReplayRel == Rel("e1", "benefits from", "e2")
ReplayTarget == ExtractedAssertionRow(1, ReplayRel, "d1", "c1", 1)

\* Graphs the program leaves for this fact store. e3 has a node when a
\* document mentioned it (client.ts 400-417 projects the entities of a
\* document) and none when only EDGAR ingestion created it (edgar/ingest.ts
\* 54-116 writes the fact store alone); assertion 1 has its edge unless the
\* projection of client.ts 476-498 failed after the insert.
ReplayNodeInputs == {{"e1", "e2"}, {"e1", "e2", "e3"}}
ReplayEdgeInputs == {{}, {EdgeOf(ExtractedEdgeRow(1, ReplayRel, "d1", "c1", 1))}}

\* the requests: a retract has no newAssertion
ReplayInputs ==
  {[name |-> "applyCorrection", action |-> "retract", targetAssertionId |-> 1,
    newAssertion |-> Null]}
  \cup {[name |-> "applyCorrection", action |-> a, targetAssertionId |-> 1,
         newAssertion |-> Some(d)] : a \in Actions \ {"retract"}, d \in NewAssertionInputs}

\* Both runs have received the request and read the target (apply.ts 42-66).
InitReplay ==
  /\ entities = EntityIds
  /\ assertions = <<ReplayTarget>>
  /\ corrections = {}
  /\ nodes = {}
  /\ edges = {}
  /\ clock = 1
  /\ \E in \in ReplayInputs :
       /\ op = [c \in Calls |-> in]
       /\ pc = [c \in Calls |-> AcNext("ac_select", in.action)]
  /\ loc = [c \in Calls |-> [IdleLoc EXCEPT !.target = Some(ReplayTarget), !.now = 2,
                                            !.correctionId = 2]]
  /\ result = [c \in Calls |-> NoResult]
  /\ hist = [c \in Calls |-> IdleHist]
  /\ points = {}
  /\ signals = {}
  /\ entityRows = << >>
  /\ batch = NoBatch
  /\ stream = << >>
  /\ worlds \in [Calls -> {[assertions |-> assertions, corrections |-> corrections,
                            nodes |-> ns, edges |-> es] :
                             ns \in ReplayNodeInputs, es \in ReplayEdgeInputs}]

\* apply.ts 100-120
RpValidate(c) ==
  /\ pc[c] = "ac_validate"
  /\ LET next == Val(op[c].newAssertion)
         r == ResolveNewAssertion(Val(loc[c].target), next)
     IN IF ValidationFails(r)
          THEN Finish(c, Failure("applyCorrection", "Validation"))
          ELSE Advance(c, AcNext("ac_validate", op[c].action),
                       [loc[c] EXCEPT !.next = Some(r), !.newAssertionId = Some(loc[c].now),
                                       !.draft = Some(next)])
  /\ UNCHANGED <<entities, assertions, corrections, nodes, edges, clock, hist, points, signals,
                 entityRows, batch, stream, worlds>>

\* apply.ts 69-83, 122-150: the transaction, committed in the run's own copy
\* of the fact store (assertions and corrections stay the state both runs
\* started from)
RpTx(c) ==
  /\ pc[c] = "ac_tx"
  /\ LET ws == TxStatements(c)
         r == TxRun(ws, Len(ws))
         db == TxCommit(r.db, r.buf)
     IN /\ \A k \in 1..Len(ws) : StatementOk(ws[k])
        /\ worlds' = [worlds EXCEPT ![c].assertions = db.assertions,
                                    ![c].corrections = db.corrections]
  /\ hist' = [hist EXCEPT ![c].wrote = TRUE, ![c].committed = TRUE]
  /\ Advance(c, AcNext("ac_tx", op[c].action), loc[c])
  /\ UNCHANGED <<entities, assertions, corrections, nodes, edges, clock, points, signals,
                 entityRows, batch, stream>>

\* apply.ts 85-89, 152-156
RpClose(c) ==
  /\ pc[c] = "ac_close"
  /\ LET id == Val(loc[c].target).id
     IN /\ worlds' = [worlds EXCEPT ![c].edges =
                        CloseAssertionEdges(@, id, TargetStatus(op[c].action), loc[c].now)]
        /\ Advance(c, AcNext("ac_close", op[c].action),
                   [loc[c] EXCEPT !.closed = ClosedCount(worlds[c].edges, id)])
  /\ hist' = [hist EXCEPT ![c].graphCalls = @ + 1]
  /\ UNCHANGED <<entities, assertions, corrections, nodes, edges, clock, points, signals,
                 entityRows, batch, stream>>

\* apply.ts 158-179
RpUpsert(c) ==
  /\ pc[c] = "ac_upsert"
  /\ worlds' = [worlds EXCEPT ![c].edges =
                  UpsertAssertionEdge(worlds[c].nodes, @,
                    NewEdgeRow(Val(loc[c].newAssertionId), Val(loc[c].next), loc[c].now))]
  /\ hist' = [hist EXCEPT ![c].graphCalls = @ + 1]
  /\ Advance(c, AcNext("ac_upsert", op[c].action), loc[c])
  /\ UNCHANGED <<entities, assertions, corrections, nodes, edges, clock, points, signals,
                 entityRows, batch, stream>>

\* The transaction or a graph call throws: the run rejects.
RpFail(c) ==
  /\ pc[c] \in {"ac_tx"} \cup GraphPcs
  /\ Finish(c, Failure("applyCorrection", IF pc[c] = "ac_tx" THEN "Db" ELSE "Graph"))
  /\ UNCHANGED <<entities, assertions, corrections, nodes, edges, clock, hist, points, signals,
                 entityRows, batch, stream, worlds>>

NextReplay ==
  \E c \in Calls :
    \/ RpValidate(c)
    \/ RpTx(c)
    \/ RpClose(c)
    \/ RpUpsert(c)
    \/ RpFail(c)

SpecReplay == InitReplay /\ [][NextReplay]_vars

\* The entity table under both of its writers, the extractions' calls of
\* findOrCreateEntity and the ingestion of filers' submissions, with the
\* requests arriving one at a time: no two calls overlap.
Serial == \A d \in Calls : pc[d] = "idle"

NextCompanies ==
  \/ \E c \in Calls : Serial /\ StartFindOrCreate(c)
  \/ \E c \in Calls : FeSelect(c)
  \/ \E c \in Calls : FeMerge(c)
  \/ \E c \in Calls : FeInsert(c)
  \/ \E c \in Calls : EntityCallFail(c)
  \/ \E c \in Calls : Serial /\ UpsertCompanyStub(c)

SpecCompanies == Init /\ [][NextCompanies]_vars

\* -------------------------------------------------------- timeline search
\* timeline.ts 42-43: documents and hits per document when the caller gives
\* none, and their largest values
DefaultLimitDocs == 8
MaxLimitDocs == 24
DefaultTopKPerDoc == 3
MaxTopKPerDoc == 10

\* A row of table documents; a document's id is the document_id in the
\* payload of its chunks' points.
DocumentRow(id, cik, docType, filingDate) ==
  [id |-> id, cik |-> cik, accessionNo |-> id, docType |-> docType, filingDate |-> filingDate]

\* The filings ingested so far. A filing is in the table before its chunks
\* are embedded, so the index may hold points for a part of them only.
DocumentTable ==
  {DocumentRow("a1", "1", "10-k", 3),
   DocumentRow("a2", "1", "10-q", 2),
   DocumentRow("a3", "2", "10-k", 1)}

\* What callers pass to timelineSearch.
TimelineCikInputs == {Null, Some("01")}
TimelineDocTypeInputs == {Null, Some("10-q"), Some("20-f")}
LimitDocsInputs == {Null, Some(1)}
TopKPerDocInputs == {Null, Some(1)}

\* citations.ts 111-113
NormalizeCikLike(cik) == StripLeadingZeros(Trim(cik))

\* rows by filingDate, latest first
RECURSIVE ByFilingDateDesc(_)
ByFilingDateDesc(rows) ==
  IF rows = {} THEN << >>
  ELSE LET r == CHOOSE x \in rows : \A y \in rows : y.filingDate <= x.filingDate
       IN <<r>> \o ByFilingDateDesc(rows \ {r})

\* citations.ts 170-220: listDocuments({cik, docType, limit}); with no company
\* entity to resolve a name or ticker, the cik filter is the cik normalized
ListDocuments(cik, docType, limit) ==
  LET rows == {d \in DocumentTable :
                 /\ (cik # Null /\ Trim(Val(cik)) # "") => d.cik = NormalizeCikLike(Val(cik))
                 /\ docType # Null => d.docType = Val(docType)}
      sorted == ByFilingDateDesc(rows)
  IN SubSeq(sorted, 1, Min(Len(sorted), limit))

\* part_009 297-301: the hits of the first attempt that has any, or of the
\* last one
RECURSIVE FirstHits(_, _, _)
FirstHits(pts, attempts, topK) ==
  LET hits == SearchWith(pts, Head(attempts), topK)
  IN IF Len(hits) > 0 \/ Tail(attempts) = << >> THEN hits
     ELSE FirstHits(pts, Tail(attempts), topK)

\* part_009 222-303: vectorSearchChunks for a query that is not blank
VectorSearchHits(pts, topK, filters) ==
  FirstHits(pts, UniqueAttempts(Attempts(filters), {}), ClampTopK(topK))

\* timeline.ts 70-97: the entry of document d
TimelineEntry(d, hits) ==
  [documentId |-> d.id, cik |-> d.cik, accessionNo |-> d.accessionNo, docType |-> d.docType,
   filingDate |-> d.filingDate, hits |-> hits]

\* timeline.ts 102-110
TimelineOk(query, model, docs, perDoc) ==
  LET HasHits(r) == Len(r.hits) > 0
  IN [kind |-> "ok", call |-> "timelineSearch", query |-> query, model |-> model,
      documentsConsidered |-> Len(docs), results |-> SelectSeq(perDoc, HasHits)]

\* what a timeline search has been asked
TimelineHist(input) ==
  [committed |-> FALSE, wrote |-> FALSE, graphCalls |-> 0, projected |-> FALSE, input |-> input]

\* timeline.ts 39-64: a request arrives; a blank query is answered at once,
\* otherwise the documents are listed, once more without docType when none
\* is found. One timeline search is served at a time.
StartTimeline(c) ==
  /\ FirstFree(c)
  /\ \A d \in Calls : pc[d] = "idle"
  /\ \E query \in QueryInputs, cik \in TimelineCikInputs, docType \in TimelineDocTypeInputs,
        limitDocs \in LimitDocsInputs, topKPerDoc \in TopKPerDocInputs :
       LET in == [query |-> query, cik |-> cik, docType |-> docType, limitDocs |-> limitDocs,
                  topKPerDoc |-> topKPerDoc]
           limit == Max(1, Min(Val(Coalesce(limitDocs, Some(DefaultLimitDocs))), MaxLimitDocs))
           topK == Max(1, Min(Val(Coalesce(topKPerDoc, Some(DefaultTopKPerDoc))), MaxTopKPerDoc))
           first == ListDocuments(cik, docType, limit)
           docs == IF Len(first) = 0 /\ docType # Null
                     THEN ListDocuments(cik, Null, limit) ELSE first
       IN /\ hist' = [hist EXCEPT ![c] = TimelineHist(in)]
          /\ IF Trim(query) = ""
               THEN Finish(c, TimelineOk(Trim(query), "unknown", << >>, << >>))
               ELSE IF Len(docs) = 0
                 THEN Finish(c, TimelineOk(Trim(query), "unknown", docs, << >>))
                 ELSE /\ op' = [op EXCEPT ![c] = [name |-> "timelineSearch", query |-> query]]
                      /\ loc' = [loc EXCEPT ![c] =
                                   [docs |-> docs, topKPerDoc |-> topK,
                                    perDoc |-> [i \in 1..Len(docs) |-> Null]]]
                      /\ pc' = [pc EXCEPT ![c] = "tl_search"]
                      /\ result' = [result EXCEPT ![c] = NoResult]
  /\ UNCHANGED <<entities, assertions, corrections, nodes, edges, clock, points, signals,
                 entityRows, batch, stream, worlds>>

\* timeline.ts 67-110: the search of one of the documents, in whatever order
\* the limiter runs them; the last one to end completes the response
TlSearch(c) ==
  /\ pc[c] = "tl_search"
  /\ \E i \in 1..Len(loc[c].docs) :
       /\ loc[c].perDoc[i] = Null
       /\ LET d == loc[c].docs[i]
              filters == [cik |-> Some(d.cik), docType |-> Some(d.docType),
                          accessionNo |-> Some(d.accessionNo)]
              hits == VectorSearchHits(points, Some(loc[c].topKPerDoc), filters)
              perDoc == [loc[c].perDoc EXCEPT ![i] = Some(TimelineEntry(d, hits))]
          IN IF \A j \in 1..Len(perDoc) : perDoc[j] # Null
               THEN Finish(c, TimelineOk(Trim(op[c].query), EmbeddingModel, loc[c].docs,
                                         [j \in 1..Len(perDoc) |-> Val(perDoc[j])]))
               ELSE Goto(c, "tl_search", [loc[c] EXCEPT !.perDoc = perDoc])
  /\ UNCHANGED <<entities, assertions, corrections, nodes, edges, clock, hist, points, signals,
                 entityRows, batch, stream, worlds>>

\* A search of the index or the embedding throws: Promise.all rejects.
TlFail(c) ==
  /\ pc[c] = "tl_search"
  /\ Finish(c, Failure("timelineSearch", "Upstream"))
  /\ UNCHANGED <<entities, assertions, corrections, nodes, edges, clock, hist, points, signals,
                 entityRows, batch, stream, worlds>>

NextTimeline ==
  \/ \E c \in Calls : StartTimeline(c)
  \/ \E c \in Calls : TlSearch(c)
  \/ \E c \in Calls : TlFail(c)

SpecTimeline == InitSearch /\ [][NextTimeline]_vars

Next ==
  \/ \E c \in Calls : StartCorrection(c)
  \/ \E c \in Calls : AcValidate(c)
  \/ \E c \in Calls : AcTx(c)
  \/ \E c \in Calls : AcTxFail(c)
  \/ \E c \in Calls : AcClose(c)
  \/ \E c \in Calls : AcUpsert(c)
  \/ \E c \in Calls : AcGraphFail(c)
  \/ \E c \in Calls : StartExtract(c)
  \/ \E c \in Calls : ExEntities(c)
  \/ \E c \in Calls : ExNodes(c)
  \/ \E c \in Calls : ExInsert(c)
  \/ \E c \in Calls : ExEdges(c)
  \/ \E c \in Calls : ExFail(c)
  \/ \E e \in CompanyIds : UpsertCompanyEntityFromSubmission(e)

Spec == Init /\ [][Next]_vars


\* The same system when no store, graph or extractor call throws.
NextNoFail ==
  \/ \E c \in Calls : StartCorrection(c)
  \/ \E c \in Calls : AcValidate(c)
  \/ \E c \in Calls : AcTx(c)
  \/ \E c \in Calls : AcClose(c)
  \/ \E c \in Calls : AcUpsert(c)
  \/ \E c \in Calls : StartExtract(c)
  \/ \E c \in Calls : ExEntities(c)
  \/ \E c \in Calls : ExNodes(c)
  \/ \E c \in Calls : ExInsert(c)
  \/ \E c \in Calls : ExEdges(c)
  \/ \E e \in CompanyIds : UpsertCompanyEntityFromSubmission(e)

SpecNoFail == Init /\ [][NextNoFail]_vars

\* ------------------------------------------------------------- properties
AssertionIds == DOMAIN assertions
CorrectionsOf(id) == {k \in corrections : k.targetAssertionId = id}
EdgesOf(id) == {e \in edges : e.assertionId = id}
Closed(id) == assertions[id].status \in {"retracted", "superseded"}

\* the call in slot c was an applyCorrection and has ended with result kind k
EndedCorrection(c, k) ==
  Ended(c) /\ result[c].call = "applyCorrection" /\ result[c].kind = k

\* C1: in every reachable state every assertion row has status = active
\* exactly when its validTo is null.
C1_ActiveIffNoValidTo ==
  \A id \in AssertionIds :
    (assertions[id].status = "active") <=> (assertions[id].validTo = Null)

C1_Witness ==
  /\ \E id \in AssertionIds : assertions[id].status = "retracted"
  /\ \E id \in AssertionIds : assertions[id].status = "superseded"

\* C2 (as claimed): every retracted or superseded assertion is the target of
\* exactly one Correction row.
C2_ExactlyOneCorrection ==
  \A id \in AssertionIds : Closed(id) => Cardinality(CorrectionsOf(id)) = 1

\* C3 (as claimed): retracted and superseded are terminal; no step changes
\* the status or the validTo of an assertion that is no longer active.
C3_TerminalStatus ==
  [][\A id \in AssertionIds :
       Closed(id) => /\ assertions'[id].status = assertions[id].status
                     /\ assertions'[id].validTo = assertions[id].validTo]_vars


\* a and b differ at most in status and validTo
SameFacts(a, b) == [a EXCEPT !.status = b.status, !.validTo = b.validTo] = b

\* slot c runs, or has just run, an applyCorrection
IsCorrection(c) ==
  \/ op[c].name = "applyCorrection"
  \/ Ended(c) /\ result[c].call = "applyCorrection"

\* C4: the committing step of a supersede/override changes only status and
\* validTo of its target, leaves every other existing row as it was, and
\* adds exactly one row, active, that carries the new facts.
C4_SupersedeFrame ==
  [][\A c \in Calls :
       (pc[c] = "ac_tx" /\ op[c].action # "retract" /\ hist'[c].committed) =>
         LET t == Val(loc[c].target).id
             n == Val(loc[c].newAssertionId)
             r == Val(loc[c].next)
         IN /\ SameFacts(assertions[t], assertions'[t])
            /\ assertions'[t].status = "superseded"
            /\ \A id \in AssertionIds \ {t} : assertions'[id] = assertions[id]
            /\ n \notin AssertionIds
            /\ DOMAIN assertions' = AssertionIds \cup {n}
            /\ assertions'[n].status = "active"
            /\ assertions'[n].subjectEntityId = r.subjectEntityId
            /\ assertions'[n].predicate = Val(r.predicate)
            /\ assertions'[n].objectEntityId = r.objectEntityId]_vars

C4_Witness ==
  \E c \in Calls :
    /\ EndedCorrection(c, "ok")
    /\ result[c].action \in {"supersede", "override"}
    /\ Cardinality(AssertionIds) >= 2
    /\ assertions[Val(result[c].newAssertionId)].predicate
         # assertions[result[c].targetAssertionId].predicate

\* C5: the writes of one correction are visible together or not at all: no
\* closed target without its Correction row, no Correction row whose target
\* is untouched, no Correction naming a new assertion that is missing.
C5_AtomicCorrection ==
  /\ \A id \in AssertionIds : Closed(id) => CorrectionsOf(id) # {}
  /\ \A k \in corrections :
       /\ k.targetAssertionId \in AssertionIds
       /\ Closed(k.targetAssertionId)
       /\ k.newAssertionId # Null => Val(k.newAssertionId) \in AssertionIds
       /\ k.action # "retract" => k.newAssertionId # Null

C5_Witness ==
  /\ corrections # {}
  /\ \E c \in Calls :
       EndedCorrection(c, "error") /\ result[c].error = "Db"

\* C6: an applyCorrection issues no graph call before its transaction has
\* committed, and a graph call that fails leaves the fact store as it is.
C6_GraphAfterCommit ==
  /\ [](\A c \in Calls :
          (IsCorrection(c) /\ hist[c].graphCalls > 0) => hist[c].committed)
  /\ [][\A c \in Calls :
          (pc[c] \in GraphPcs /\ pc'[c] = "idle" /\ result'[c].kind = "error") =>
            /\ hist[c].committed
            /\ UNCHANGED dbVars
            /\ Closed(Val(loc[c].target).id)]_vars

C6_Witness ==
  \E c \in Calls :
    /\ EndedCorrection(c, "error")
    /\ result[c].error = "Graph"
    /\ hist[c].committed
    /\ corrections # {}

\* C7 (as claimed): once the transaction of an applyCorrection has committed
\* the caller receives the core result, whatever the graph step did.
C7_CoreResultAfterCommit ==
  \A c \in Calls :
    (Ended(c) /\ result[c].call = "applyCorrection" /\ hist[c].committed) =>
      result[c].kind = "ok"

\* C8: an applyCorrection rejected for a missing target or for an unresolved
\* predicate or object has written nothing to the fact store and has made no
\* graph call.
C8_RejectedWritesNothing ==
  \A c \in Calls :
    (EndedCorrection(c, "error") /\ result[c].error \in {"NotFound", "Validation"}) =>
      ~hist[c].wrote /\ ~hist[c].committed /\ hist[c].graphCalls = 0

C8_Witness ==
  /\ assertions # << >>
  /\ \E c \in Calls : EndedCorrection(c, "error") /\ result[c].error = "Validation"
  /\ \E c \in Calls : EndedCorrection(c, "error") /\ result[c].error = "NotFound"

\* C9 (as claimed): with no call in flight and none failed, every active
\* assertion has exactly one graph edge and every closed assertion's edges
\* carry its status and validTo.
C9_GraphMirrorsStore ==
  (\A c \in Calls : pc[c] = "idle" /\ result[c].kind # "error") =>
    \A id \in AssertionIds :
      IF assertions[id].status = "active"
        THEN Cardinality(EdgesOf(id)) = 1
        ELSE \A e \in EdgesOf(id) :
               e.status = assertions[id].status /\ e.validTo = assertions[id].validTo

\* C10 (as claimed): when a supersede/override returns its result, every
\* edge of the target is closed and the graph holds an active edge with the
\* new assertion's id from its subject to its object.
C10_SupersedeProjectsNewEdge ==
  [][\A c \in Calls :
       (/\ pc[c] # "idle"
        /\ pc'[c] = "idle"
        /\ result'[c].kind = "ok"
        /\ result'[c].call = "applyCorrection"
        /\ result'[c].action # "retract") =>
         LET n == Val(result'[c].newAssertionId)
         IN /\ Val(assertions'[n].objectEntityId) \in entities'
            /\ \A e \in edges' :
                 e.assertionId = result'[c].targetAssertionId =>
                   e.status # "active" /\ e.validTo # Null
            /\ \E e \in edges' :
                 /\ e.assertionId = n
                 /\ e.status = "active"
                 /\ e.from = assertions'[n].subjectEntityId
                 /\ e.to = Val(assertions'[n].objectEntityId)]_vars


\* C11 (as claimed): when a retract of an assertion whose edge was projected
\* before the call returns its result, the assertion is retracted with validTo set, the
\* call has added exactly one Correction row, with action retract, and every
\* edge of the assertion carries the assertion's status and validTo.
C11_RetractRoundTrip ==
  [][\A c \in Calls :
       (/\ pc[c] = "ac_close"
        /\ op[c].action = "retract"
        /\ hist[c].projected
        /\ pc'[c] = "idle"
        /\ result'[c].kind = "ok") =>
         LET t == Val(loc[c].target).id
         IN /\ assertions'[t].status = "retracted"
            /\ assertions'[t].validTo # Null
            /\ Cardinality({k \in corrections' : k.id = loc[c].correctionId}) = 1
            /\ \A k \in corrections' :
                 k.id = loc[c].correctionId =>
                   k.action = "retract" /\ k.targetAssertionId = t
            /\ \A e \in edges' :
                 e.assertionId = t =>
                   /\ e.status = assertions'[t].status
                   /\ e.validTo = assertions'[t].validTo]_vars

\* the row whose upsert created edge e
RowOfEdge(e) ==
  [assertionId |-> e.assertionId, predicate |-> e.type, subjectEntityId |-> e.from,
   objectEntityId |-> e.to, confidence |-> e.confidence,
   sourceDocumentId |-> e.sourceDocumentId, sourceChunkId |-> e.sourceChunkId,
   validFrom |-> e.validFrom, validTo |-> Null, status |-> "active"]

SameKey(a, b) ==
  a.assertionId = b.assertionId /\ a.type = b.type /\ a.from = b.from /\ a.to = b.to

\* C12: upserting again the entities, or the edge row, of an earlier upsert
\* adds no node and no edge: one node per entityId, one edge per (subject,
\* type, object, assertionId), and a second run changes nothing more.
C12_UpsertIdempotent ==
  /\ \A ids \in SUBSET nodes : UpsertEntities(nodes, ids) = nodes
  /\ \A e \in edges :
       LET once == UpsertAssertionEdge(nodes, edges, RowOfEdge(e))
       IN /\ UpsertAssertionEdge(nodes, once, RowOfEdge(e)) = once
          /\ Cardinality(once) = Cardinality(edges)
          /\ Cardinality({x \in once : SameKey(x, e)}) = 1

C12_Witness ==
  /\ nodes # {}
  /\ \E e \in edges : e.status # "active"
  /\ \E e \in edges : e.status = "active"

\* the facts an extraction stores for a relation of a chunk
ExtractedFact(a) ==
  <<a.subjectEntityId, a.predicate, a.objectEntityId, a.sourceDocumentId, a.sourceChunkId>>

\* C13 (as claimed): extracting a document again with the same extractor
\* output adds no fact and no edge: no two active extracted assertions, and
\* no two edges of extracted assertions, state the same fact of the same
\* chunk.
C13_ReextractionAddsNothing ==
  /\ \A a, b \in AssertionIds :
       (/\ assertions[a].status = "active" /\ assertions[b].status = "active"
        /\ assertions[a].extractionRunId # Null /\ assertions[b].extractionRunId # Null
        /\ ExtractedFact(assertions[a]) = ExtractedFact(assertions[b])) => a = b
  /\ \A e, f \in edges :
       (/\ e.assertionId \in AssertionIds /\ f.assertionId \in AssertionIds
        /\ assertions[e.assertionId].extractionRunId # Null
        /\ assertions[f.assertionId].extractionRunId # Null
        /\ e.status = "active" /\ f.status = "active"
        /\ e.type = f.type /\ e.from = f.from /\ e.to = f.to
        /\ e.sourceChunkId = f.sourceChunkId) => e = f

\* C14: all edges that carry one assertionId join the same subject node to
\* the same object node.
C14_OneEdgePairPerAssertion ==
  \A e, f \in edges :
    e.assertionId = f.assertionId => e.from = f.from /\ e.to = f.to

C14_Witness ==
  \E e, f \in edges :
    /\ e.assertionId # f.assertionId
    /\ <<e.from, e.to>> # <<f.from, f.to>>
    /\ \E c \in Calls : EndedCorrection(c, "ok") /\ result[c].newAssertionId = Some(f.assertionId)


\* the active, currently valid assertions of subject su with predicate pr
ActiveOf(tbl, su, pr) ==
  {id \in DOMAIN tbl :
     /\ tbl[id].status = "active" /\ tbl[id].validTo = Null
     /\ tbl[id].subjectEntityId = su /\ tbl[id].predicate = pr}

DistinctObjects(tbl, ids) == {tbl[id].objectEntityId : id \in ids}

GroupsFor(conflicts, su, pr) ==
  {i \in 1..Len(conflicts) :
     conflicts[i].subjectEntityId = su /\ conflicts[i].predicate = pr}

C16_ClosedNeverConflict ==
  [][\A c \in Calls :
       (pc[c] = "dc_select" /\ pc'[c] = "idle") =>
         /\ UNCHANGED <<entities, assertions, corrections, nodes, edges>>
         /\ \A i \in 1..Len(result'[c].conflicts) :
              \A id \in Range(result'[c].conflicts[i].assertionIds) :
                assertions[id].status = "active"
         /\ \A su \in EntityIds, pr \in Predicates :
              Cardinality(DistinctObjects(assertions, ActiveOf(assertions, su, pr))) <= 1
                => GroupsFor(result'[c].conflicts, su, pr) = {}]_vars

\* an earlier report names (su, pr), a member has been retracted since, and
\* the next report does not name it
C16_Witness ==
  \E c, d \in Calls :
    /\ Ended(c) /\ result[c].call = "detectConflicts"
    /\ Ended(d) /\ result[d].call = "detectConflicts"
    /\ Len(result[c].conflicts) = 1
    /\ result[d].conflicts = << >>
    /\ \E id \in Range(result[c].conflicts[1].assertionIds) :
         /\ assertions[id].status = "retracted"
         /\ \E k \in corrections : k.targetAssertionId = id /\ k.action = "retract"
    /\ \A su \in EntityIds, pr \in Predicates :
         Cardinality(DistinctObjects(assertions, ActiveOf(assertions, su, pr))) <= 1


\* the call in slot c was a vectorSearchChunks and has returned a result
EndedSearch(c) ==
  Ended(c) /\ result[c].call = "vectorSearchChunks" /\ result[c].kind = "ok"

\* the filter values a request supplies for the given keys, as stored in
\* the index
Supplied(filters, keys) ==
  {kv \in {<<"cik", IF filters.cik = Null THEN ""
                    ELSE StripLeadingZeros(Trim(Val(filters.cik)))>>,
           <<"doc_type", IF filters.docType = Null THEN "" ELSE Val(filters.docType)>>,
           <<"accession_no", IF filters.accessionNo = Null THEN ""
                             ELSE Trim(Val(filters.accessionNo))>>} :
     kv[1] \in keys /\ kv[2] # ""}

RECURSIVE WithoutRepeats(_)
WithoutRepeats(q) ==
  IF Len(q) <= 1 THEN q
  ELSE LET rest == WithoutRepeats(Tail(q))
       IN IF Head(q) = Head(rest) THEN rest ELSE <<Head(q)>> \o rest

\* the filter levels in their order: all supplied filters, without
\* accessionNo, cik only, none
Levels(filters) ==
  WithoutRepeats(<<Supplied(filters, {"cik", "doc_type", "accession_no"}),
                   Supplied(filters, {"cik", "doc_type"}),
                   Supplied(filters, {"cik"}),
                   {}>>)

PairsOf(must) == {<<must[i].key, must[i].value>> : i \in 1..Len(must)}

\* the searches of call c follow the levels in order, each one before the
\* last found nothing, and the result is the last one's hits
SearchedInOrder(c) ==
  LET h == hist[c]
      k == ClampTopK(h.topK)
      n == Len(h.searches)
  IN /\ n <= Len(Levels(h.filters))
     /\ \A i \in 1..n : PairsOf(h.searches[i]) = Levels(h.filters)[i]
     /\ \A i \in 1..(n - 1) : SearchWith(points, h.searches[i], k) = << >>
     /\ n > 0 => /\ result[c].hits = SearchWith(points, h.searches[n], k)
                 /\ result[c].hits = << >> => n = Len(Levels(h.filters))

\* C17 (as claimed): every vectorSearchChunks call searches the levels in
\* order, stops at the first level with a hit and returns that level's hits,
\* and returns no hits only if the unfiltered search finds none.
C17_BroadeningOrder ==
  \A c \in Calls :
    EndedSearch(c) =>
      /\ SearchedInOrder(c)
      /\ result[c].hits = << >> =>
           SearchWith(points, << >>, ClampTopK(hist[c].topK)) = << >>

\* C17 (amended): the same for a query that is not blank; for a blank query
\* the call issues no search and returns no hits.
C17_BroadeningOrderNonBlank ==
  \A c \in Calls :
    EndedSearch(c) =>
      IF Trim(hist[c].query) = ""
        THEN hist[c].searches = << >> /\ result[c].hits = << >>
        ELSE /\ hist[c].searches # << >>
             /\ SearchedInOrder(c)
             /\ result[c].hits = << >> =>
                  SearchWith(points, << >>, ClampTopK(hist[c].topK)) = << >>

\* a call that went through all four levels and found its hits at the last
C17_Witness ==
  \E c \in Calls :
    /\ EndedSearch(c)
    /\ Len(hist[c].searches) = 4
    /\ result[c].hits # << >>

\* C18 (as claimed): when the search with cik, docType and accessionNo finds
\* nothing and the search with cik alone finds N > 0 hits, the call returns
\* those N hits and its response has a field, besides the model name and
\* the hits, that tells the level that matched.
C18_ReportsMatchedLevel ==
  \A c \in Calls :
    LET h == hist[c]
        k == ClampTopK(h.topK)
        f == h.filters
    IN (/\ EndedSearch(c)
        /\ Trim(h.query) # ""
        /\ Cardinality(Supplied(f, {"cik", "doc_type", "accession_no"})) = 3
        /\ SearchWith(points, CikMust(f.cik) \o DocTypeMust(f.docType)
                                \o AccessionMust(f.accessionNo), k) = << >>
        /\ SearchWith(points, CikMust(f.cik), k) # << >>) =>
         /\ result[c].hits = SearchWith(points, CikMust(f.cik), k)
         /\ DOMAIN result[c] \ {"kind", "call", "model", "hits"} # {}

HitIds(hits) == {hits[i].chunkId : i \in 1..Len(hits)}

\* the filters that keep part of the conditions of must
RECURSIVE Relaxations(_)
Relaxations(must) ==
  IF must = << >> THEN {<< >>}
  ELSE LET rest == Relaxations(Tail(must))
       IN rest \cup {<<Head(must)>> \o r : r \in rest}

\* C19 (as claimed): for the same query and topK, the hits a call found with
\* filters F are among the hits of the search with any part F' of F.
C19_BroadeningMonotone ==
  \A c \in Calls :
    (EndedSearch(c) /\ hist[c].searches # << >>) =>
      LET F == hist[c].searches[Len(hist[c].searches)]
      IN \A F2 \in Relaxations(F) :
           HitIds(result[c].hits)
             \subseteq HitIds(SearchWith(points, F2, ClampTopK(hist[c].topK)))


\* the call in slot c was a graphTraverse and has returned a result
EndedTraverse(c) ==
  Ended(c) /\ result[c].call = "graphTraverse" /\ result[c].kind = "ok"

\* the nodes at most k hops from the nodes of from, over relationships of
\* the given types taken in either direction
RECURSIVE WithinHops(_, _, _)
WithinHops(from, types, k) ==
  IF k = 0 THEN from
  ELSE LET es == {e \in edges : InList(e.type, types)}
       IN WithinHops(from \cup {e.to : e \in {x \in es : x.from \in from}}
                          \cup {e.from : e \in {x \in es : x.to \in from}},
                     types, k - 1)

NodeIds(q) == {q[i].id : i \in 1..Len(q)}

\* C20 (as claimed): a graphTraverse given several seeds that returned fewer
\* paths than its limit returns every entity within depth hops of any of its
\* seeds over the allowed edge types.
C20_TraverseFromEverySeed ==
  \A c \in Calls :
    LET h == hist[c]
        types == SanitizeEdgeTypes(h.edgeTypes)
        depth == ClampInt(Val(Coalesce(h.depth, Some(TraverseDefaultDepth))),
                          TraverseMinDepth, TraverseMaxDepth)
        limit == ClampInt(Val(Coalesce(h.limit, Some(TraverseDefaultLimit))),
                          TraverseMinLimit, TraverseMaxLimit)
    IN (/\ EndedTraverse(c)
        /\ Len(h.seedEntityIds) > 1
        /\ Cardinality(h.paths) < limit) =>
         \A i \in 1..Len(h.seedEntityIds) :
           h.seedEntityIds[i] \in nodes =>
             WithinHops({h.seedEntityIds[i]}, types, depth) \ {h.seedEntityIds[i]}
               \subseteq NodeIds(result[c].nodes)

\* the types a traversal asked with the list types may follow: those of the
\* list that are in the vocabulary, or the whole vocabulary when there are none
TypesAsked(types) ==
  LET given == IF types = Null THEN {} ELSE Range(Val(types)) \cap Range(ALLOWED_EDGE_TYPES)
  IN IF given = {} THEN Range(ALLOWED_EDGE_TYPES) ELSE given

\* the depth a traversal asked with depth goes to
DepthAsked(depth) ==
  IF depth = Null THEN TraverseDefaultDepth
  ELSE IF Val(depth) < TraverseMinDepth THEN TraverseMinDepth
  ELSE IF Val(depth) > TraverseMaxDepth THEN TraverseMaxDepth
  ELSE Val(depth)

\* the nodes at most k hops from node at over relationships of the types ts
RECURSIVE Reach(_, _, _)
Reach(at, ts, k) ==
  IF k = 0 THEN {at}
  ELSE LET near == Reach(at, ts, k - 1)
       IN near \cup {e.to : e \in {x \in edges : x.type \in ts /\ x.from \in near}}
               \cup {e.from : e \in {x \in edges : x.type \in ts /\ x.to \in near}}

EndedFacts(c) ==
  Ended(c) /\ result[c].call = "factsQuery" /\ result[c].kind = "ok"

\* the stored row a returned row stands for meets the filter f, given as v
RowMeets(r, f, v) ==
  /\ r.id \in DOMAIN assertions
  /\ AssertionRowOf(assertions[r.id]) = r
  /\ CASE f = "subjectEntityId" -> r.subjectEntityId = Val(v)
       [] f = "predicate" -> r.predicate = Val(v)
       [] f = "objectEntityId" -> r.objectEntityId = v
       [] f = "status" -> r.status = Val(v)

FactsFilters == {"subjectEntityId", "predicate", "objectEntityId", "status"}

\* what the claim says of an ended factsQuery when the filters of given
\* count as supplied
FactsContract(c, given) ==
  LET o == hist[c].opts
      rows == result[c].rows
      cap == IF o.limit = Null THEN FactsDefaultLimit
             ELSE IF Val(o.limit) < 1 THEN 1
             ELSE IF Val(o.limit) > FactsMaxLimit THEN FactsMaxLimit
             ELSE Val(o.limit)
  IN /\ given = {} => rows = << >>
     /\ Len(rows) <= cap
     /\ \A i \in 1..Len(rows) : \A f \in given : RowMeets(rows[i], f, o[f])

\* C22 (as claimed): a factsQuery given none of the four filters returns no
\* row; given some, it returns only rows that match every filter given, at
\* most limit of them, limit clamped to 1..200.
C22_FactsFilters ==
  \A c \in Calls :
    EndedFacts(c) => FactsContract(c, {f \in FactsFilters : hist[c].opts[f] # Null})

\* C22 (amended): the same with a filter counting as given only when it is
\* a non-empty value; an empty string is treated as no filter.
C22_FactsFiltersNonEmpty ==
  \A c \in Calls :
    EndedFacts(c) =>
      FactsContract(c, {f \in FactsFilters : hist[c].opts[f] \notin {Null, Some("")}})

\* a query with two filters and a limit below the range has returned its one
\* row while more rows match
C22_Witness ==
  \E c \in Calls :
    /\ EndedFacts(c)
    /\ hist[c].opts.predicate = Some("BENEFITS_FROM")
    /\ hist[c].opts.status = Some("active")
    /\ hist[c].opts.limit = Some(0)
    /\ Len(result[c].rows) = 1
    /\ Cardinality({id \in DOMAIN assertions :
                      /\ assertions[id].predicate = "BENEFITS_FROM"
                      /\ assertions[id].status = "active"}) > 1

\* the call in slot c was a screenSignals and has returned its rows
EndedScreen(c) ==
  Ended(c) /\ result[c].call = "screenSignals" /\ result[c].kind = "ok"

\* the observations of cik under key dated within the last days days
Observed(cik, key, days) ==
  {s \in signals : s.cik = cik /\ s.signalKey = key /\ Today - s.asOfDate <= days}

\* cik has an EPS and a flow observation in the windows of the screening
\* asked with input in, its EPS rose by more than the threshold and its
\* flows sum to more than theirs
Rising(cik, in) ==
  LET eps == Observed(cik, DefaultEpsKey, LookbackDays(in.epsLookbackDays, DefaultEpsLookbackDays))
      flows == Observed(cik, DefaultFlowKey,
                        LookbackDays(in.flowLookbackDays, DefaultFlowLookbackDays))
      minDelta == IF in.epsMinDelta = Null THEN DefaultMinDelta ELSE Val(in.epsMinDelta)
      minSum == IF in.flowMinSum = Null THEN DefaultMinSum ELSE Val(in.flowMinSum)
  IN /\ eps # {}
     /\ flows # {}
     /\ \E late, early \in eps :
          /\ \A s \in eps : early.asOfDate <= s.asOfDate /\ s.asOfDate <= late.asOfDate
          /\ late.value - early.value > minDelta
     /\ SumValues(flows) > minSum

\* the ciks a screening asked with input in is restricted to: the ones
\* listed, normalized, or every cik when none is left
InScope(cik, in) ==
  LET listed == IF in.ciks = Null THEN {}
                ELSE {ScreenNormalizeCik(x) : x \in Range(Val(in.ciks))} \ {""}
  IN listed = {} \/ cik \in listed

\* what the claim says of an ended screenSignals when the ciks of scope are
\* the ones screened
ScreenContract(c, Scope(_, _)) ==
  LET in == hist[c].input
      rows == result[c].rows
      cap == IF in.limit = Null THEN ScreenDefaultLimit
             ELSE IF Val(in.limit) < 1 THEN 1
             ELSE IF Val(in.limit) > ScreenMaxLimit THEN ScreenMaxLimit
             ELSE Val(in.limit)
      all == {s.cik : s \in signals}
  IN /\ Len(rows) <= cap
     /\ \A i, j \in 1..Len(rows) : i < j => rows[i].flows.sum >= rows[j].flows.sum
     /\ \A i \in 1..Len(rows) : Scope(rows[i].cik, in) /\ Rising(rows[i].cik, in)
     /\ \A cik \in all :
          (Scope(cik, in) /\ Rising(cik, in)) =>
            \/ \E i \in 1..Len(rows) : rows[i].cik = cik
            \/ Len(rows) = cap

Everywhere(cik, in) == TRUE

\* C23 (as claimed): screenSignals returns a cik exactly when it has an EPS
\* and a flow observation in their windows, latest EPS less earliest EPS is
\* above epsMinDelta and the flow sum above flowMinSum, both strictly; rows
\* come by flow sum, largest first, and are cut at limit, clamped to 1..200.
C23_ScreenIncludesIff ==
  \A c \in Calls : EndedScreen(c) => ScreenContract(c, Everywhere)

\* C23 (amended): the same among the ciks in scope, those listed in the
\* request's ciks once normalized, every cik when the list has none.
C23_ScreenIncludesIffInScope ==
  \A c \in Calls : EndedScreen(c) => ScreenContract(c, InScope)

\* a screening with an EPS threshold has returned one cik and left out another
\* that has observations in both windows
C23_Witness ==
  \E c \in Calls :
    /\ EndedScreen(c)
    /\ hist[c].input.epsMinDelta = Some(1)
    /\ hist[c].input.flowMinSum = Null
    /\ Len(result[c].rows) = 1
    /\ \E cik \in {s.cik : s \in signals} :
         /\ cik # result[c].rows[1].cik
         /\ Observed(cik, DefaultEpsKey, DefaultEpsLookbackDays) # {}
         /\ Observed(cik, DefaultFlowKey, DefaultFlowLookbackDays) # {}

\* C24 (as claimed): when ingestSignals stores a row whose normalized cik is
\* recorded in the identifiers of a company entity found in the store at
\* its lookup, the signal's subjectEntityId is such an entity; when there is
\* none the signal is stored with no subjectEntityId.
C24_SignalResolved ==
  [][\A c \in Calls :
       (pc[c] = "is_upsert" /\ pc'[c] = "is_row") =>
         LET r == op[c].rows[loc[c].i]
             stored == CHOOSE s \in signals' :
                         /\ s.cik = SignalNormalizeCik(r.cik)
                         /\ s.signalKey = r.signalKey
                         /\ s.asOfDate = r.asOfDate
         IN IF hist[c].read = {}
              THEN stored.subjectEntityId = Null
              ELSE stored.subjectEntityId \in {Some(id) : id \in hist[c].read}]_vars

\* the call in slot c was a findOrCreateEntity and has returned an entity
EndedFindOrCreate(c) ==
  Ended(c) /\ result[c].call = "findOrCreateEntity" /\ result[c].kind = "ok"

\* C25 (as claimed): once two findOrCreateEntity calls for the same type and
\* name have both returned, the table has one row of that type and name and
\* it carries the aliases and the identifiers of both calls.
C25_NoLostEntityMerge ==
  \A c, d \in Calls :
    (/\ c # d
     /\ EndedFindOrCreate(c)
     /\ EndedFindOrCreate(d)
     /\ result[c].type = result[d].type
     /\ result[c].name = result[d].name) =>
      LET rows == {id \in DOMAIN entityRows :
                     /\ entityRows[id].type = result[c].type
                     /\ entityRows[id].canonicalName = result[c].name}
      IN /\ Cardinality(rows) = 1
         /\ \A id \in rows : \A x \in {c, d} :
              /\ {Trim(a) : a \in Range(hist[x].input.aliases)} \ {""}
                   \subseteq Range(entityRows[id].aliases)
              /\ hist[x].input.identifiers \subseteq entityRows[id].identifiers

\* the assertions an extraction has stored: those carrying its run id
Extracted == {id \in DOMAIN assertions : assertions[id].extractionRunId # Null}

\* C26: every assertion stored by extractAndProjectDocument has a predicate
\* of the four-word vocabulary and a subject other than its object, and so
\* has every edge projected for one; a relation with another predicate or a
\* single entity at both ends leaves no row and no edge.
C26_ExtractedWellFormed ==
  /\ \A id \in Extracted :
       /\ assertions[id].predicate \in {"BENEFITS_FROM", "EXPOSED_TO", "SUPPLIES_TO", "IMPACTS"}
       /\ assertions[id].objectEntityId # Some(assertions[id].subjectEntityId)
  /\ \A e \in edges :
       e.assertionId \in Extracted =>
         /\ e.type \in {"BENEFITS_FROM", "EXPOSED_TO", "SUPPLIES_TO", "IMPACTS"}
         /\ e.from # e.to
  /\ \A c \in Calls :
       (/\ Ended(c)
        /\ result[c].call = "extractAndProjectDocument"
        /\ result[c].kind = "ok"
        /\ result[c].assertionsInserted = 0) => ~hist[c].committed

\* an extraction has dropped its relation while another one's is stored and
\* projected
C26_Witness ==
  /\ \E c \in Calls : Ended(c) /\ result[c] = ExOk(1, 0, 0)
  /\ \E e \in edges : e.assertionId \in Extracted

\* the item an event of the stream or a result row is about: the cik without
\* its leading zeros, or the document
ItemOf(e) ==
  IF "cik" \in DOMAIN e THEN <<"cik", EdgarNormalizeCik(e.cik)>> ELSE <<"doc", e.documentId>>

\* the events among the first k of the stream that are about item x and
\* whose name is one of names
EventsOf(k, x, names) ==
  {i \in 1..k : /\ stream[i].event \in names
                /\ ItemOf(stream[i]) = x}

ItemStarts == {"ingest.start", "extract.start"}
ItemEnds == {"ingest.done", "ingest.error", "extract.done", "extract.error"}

\* the items the stream has events about
StreamItems ==
  {ItemOf(stream[i]) : i \in {j \in 1..Len(stream) : stream[j].event \in ItemStarts \cup ItemEnds}}

\* C27: the event stream of a bulk request begins with start; done comes
\* last and only once every item started has ended; at any moment no item
\* has more done or error events than start events, so that each start is
\* followed by one done or error, before the final done.
C27_StreamOrdered ==
  /\ Len(stream) > 0 => stream[1].event = "start"
  /\ \A i \in 2..Len(stream) : stream[i].event # "start"
  /\ (batch.phase = "done" /\ batch.write) => stream[Len(stream)].event = "done"
  /\ \A k \in 1..Len(stream) : \A x \in StreamItems :
       /\ Cardinality(EventsOf(k, x, ItemEnds)) <= Cardinality(EventsOf(k, x, ItemStarts))
       /\ stream[k].event = "done" =>
            /\ k = Len(stream)
            /\ Cardinality(EventsOf(k, x, ItemEnds)) = Cardinality(EventsOf(k, x, ItemStarts))

\* a streamed request has ended after two ciks were being ingested at once,
\* one of them given with a leading zero, one cik failed and a document was
\* extracted
C27_Witness ==
  /\ batch.phase = "done"
  /\ batch.write
  /\ \E i \in 1..(Len(stream) - 1) :
       /\ stream[i].event = "ingest.start"
       /\ stream[i + 1].event = "ingest.start"
       /\ "01" \in {stream[i].cik, stream[i + 1].cik}
  /\ \E i \in 1..Len(stream) : stream[i].event = "ingest.error"
  /\ \E i \in 1..Len(stream) : stream[i].event = "extract.done"

\* the rows of a list that are about item x
RowsAbout(rows, x) == {i \in 1..Len(rows) : ItemOf(rows[i]) = x}

\* what holds of the rows of a bulk request at every moment: no item is
\* started twice, and in the final result every cik asked has as many rows
\* as times it was asked, every document selected for extraction one row
\* per selection, and nothing else has a row
BulkRowsComplete ==
  batch.phase # "none" =>
    /\ \A i \in 1..Len(batch.started) : batch.started[i] <= 1
    /\ batch.phase = "done" =>
         LET final == Val(batch.final)
             asked == [i \in 1..Len(batch.ciks) |-> [cik |-> batch.ciks[i]]]
             docs == [i \in 1..Len(DocIdsOf(final.ingested)) |->
                        [documentId |-> DocIdsOf(final.ingested)[i]]]
         IN /\ Len(final.ingested) = Len(batch.ciks)
            /\ \A i \in 1..Len(asked) :
                 Cardinality(RowsAbout(final.ingested, ItemOf(asked[i])))
                   = Cardinality(RowsAbout(asked, ItemOf(asked[i])))
            /\ batch.extract <=> final.extracted # Null
            /\ batch.extract =>
                 /\ Len(Val(final.extracted)) = Len(docs)
                 /\ \A i \in 1..Len(docs) :
                      Cardinality(RowsAbout(Val(final.extracted), ItemOf(docs[i])))
                        = Cardinality(RowsAbout(docs, ItemOf(docs[i])))
            /\ \A i \in 1..Len(batch.started) : batch.started[i] = 1

C29_UnsetFieldsInherited ==
  [][\A c \in Calls :
       (pc[c] = "ac_tx" /\ pc'[c] # "ac_tx" /\ hist'[c].committed /\ loc[c].draft # Null) =>
         LET target == Val(loc[c].target)
             draft == Val(loc[c].draft)
             new == assertions'[Val(loc[c].newAssertionId)]
         IN /\ new.subjectEntityId = IF draft.subjectEntityId = Null THEN target.subjectEntityId
                                     ELSE Val(draft.subjectEntityId)
            /\ new.predicate = IF draft.predicate = Null THEN target.predicate
                               ELSE Val(draft.predicate)
            /\ new.objectEntityId = IF draft.objectEntityId = Null THEN target.objectEntityId
                                    ELSE draft.objectEntityId
            /\ new.sourceDocumentId = IF draft.sourceDocumentId = Null THEN target.sourceDocumentId
                                      ELSE Val(draft.sourceDocumentId)
            /\ new.sourceChunkId = IF draft.sourceChunkId = Null THEN target.sourceChunkId
                                   ELSE draft.sourceChunkId
            /\ new.confidence = IF draft.confidence = Null THEN target.confidence
                                ELSE Val(draft.confidence)]_vars

\* what run c did to its graph: did it close an edge of the target, does the
\* graph hold an edge of the new assertion
GraphOutcome(c) ==
  [closed |-> \E e \in worlds[c].edges :
                /\ e.assertionId = result[c].targetAssertionId
                /\ e.status # "active",
   created |-> \E e \in worlds[c].edges : Some(e.assertionId) = result[c].newAssertionId]

\* C30 (as claimed): two runs of the same correction on the same fact-store
\* state that return the same response have the same graph outcome: both
\* closed an edge of the target or neither did, and both graphs hold the new
\* assertion's edge or neither does.
C30_ResponseTellsGraph ==
  \A c, d \in Calls :
    (/\ Ended(c) /\ result[c].kind = "ok"
     /\ Ended(d) /\ result[d].kind = "ok"
     /\ worlds[c].assertions = worlds[d].assertions
     /\ worlds[c].corrections = worlds[d].corrections
     /\ result[c] = result[d]) =>
      GraphOutcome(c) = GraphOutcome(d)

\* the part of the outcome the response does carry: runs returning the same
\* response agree on whether an edge of the target was closed
ReplayClosedTold ==
  \A c, d \in Calls :
    (/\ Ended(c) /\ result[c].kind = "ok"
     /\ Ended(d) /\ result[d].kind = "ok"
     /\ result[c] = result[d]) =>
      GraphOutcome(c).closed = GraphOutcome(d).closed

\* the extraction in slot c projects the edge of the assertion it inserted
\* and returns, after the correction in slot d of that assertion has returned
\* with no edge closed
LateProjection(c, d) ==
  /\ pc[c] = "ex_edges"
  /\ pc'[c] = "idle"
  /\ result'[c].kind = "ok"
  /\ EndedCorrection(d, "ok")
  /\ result[d].targetAssertionId = loc[c].now
  /\ result[d].neo4jClosedEdges = 0

\* the supersede in slot d returns having closed no edge of its target, whose
\* edge the extraction projected in the meantime
LateReturn(d) ==
  /\ pc[d] = "ac_upsert"
  /\ pc'[d] = "idle"
  /\ result'[d].kind = "ok"
  /\ loc[d].closed = 0
  /\ EdgesOf(Val(loc[d].target).id) # {}
  /\ \A c \in Calls : pc[c] = "ex_edges" => loc[c].now # Val(loc[d].target).id

\* A's edges carry A's status and validTo after the step
EdgeAgrees(id) ==
  \A e \in edges' :
    e.assertionId = id =>
      /\ e.status = assertions'[id].status
      /\ e.validTo = assertions'[id].validTo

\* C31 (as claimed): when a retract or supersede of assertion A ran between
\* extraction's insert of A and extraction's upsert of A's edge, closing no
\* edge, then once both calls have returned A's edge carries A's fact-store
\* status and validTo.
C31_LaggingEdgeCatchesUp ==
  [][\A c, d \in Calls :
       /\ LateProjection(c, d) => EdgeAgrees(loc[c].now)
       /\ LateReturn(d) => EdgeAgrees(Val(loc[d].target).id)]_vars

\* the call in slot c is or was a vectorSearchChunks
IsSearch(c) == "searches" \in DOMAIN hist[c]

\* C32: within one vectorSearchChunks call no filter set is searched twice,
\* and the call issues at most one search more than the number of filters it
\* was given (those that are not blank), hence at most 4.
C32_SearchesBounded ==
  \A c \in Calls :
    IsSearch(c) =>
      LET q == hist[c].searches
          given == Supplied(hist[c].filters, {"cik", "doc_type", "accession_no"})
      IN /\ \A i, j \in 1..Len(q) : q[i] = q[j] => i = j
         /\ Len(q) <= 1 + Cardinality(given)
         /\ Len(q) <= 4

\* a call given a docType alone, whose first two attempts are the same
\* filter set, has searched that set and then the whole index
C32_Witness ==
  \E c \in Calls :
    /\ EndedSearch(c)
    /\ hist[c].filters.cik = Null
    /\ hist[c].filters.docType # Null
    /\ hist[c].filters.accessionNo = Null
    /\ Len(hist[c].searches) = 2
    /\ hist[c].searches[2] = << >>

\* the dedup key of a returned edge
EdgeKey(e) == <<e.type, e.properties.assertionId, e.from, e.to>>

\* C33: graphTraverse returns no two edges with the same (type, assertionId,
\* from, to) and no two nodes with the same id, and every relationship on a
\* returned path is among the edges, so that parallel relationships between
\* the same two nodes with different assertionIds are all kept.
C33_TraverseDedup ==
  \A c \in Calls :
    EndedTraverse(c) =>
      LET ns == result[c].nodes
          es == result[c].edges
      IN /\ \A i, j \in 1..Len(es) : EdgeKey(es[i]) = EdgeKey(es[j]) => i = j
         /\ \A i, j \in 1..Len(ns) : ns[i].id = ns[j].id => i = j
         /\ \A p \in hist[c].paths : \A k \in 1..Len(p) :
              \E i \in 1..Len(es) :
                EdgeKey(es[i]) = <<p[k].relationship.type, p[k].relationship.assertionId,
                                   p[k].start, p[k].end>>

\* a traversal whose paths share a segment returned two parallel edges, same
\* type and end points, different assertionIds
C33_Witness ==
  \E c \in Calls :
    /\ EndedTraverse(c)
    /\ \E p, q \in hist[c].paths : p # q /\ p[1] = q[1]
    /\ \E i, j \in 1..Len(result[c].edges) :
         LET e == result[c].edges[i]
             f == result[c].edges[j]
         IN /\ e.type = f.type /\ e.from = f.from /\ e.to = f.to
            /\ e.properties.assertionId # f.properties.assertionId

\* C34: the graph is never ahead of the fact store. In every state, between
\* the steps of a call and after a failed step too, every edge carries the id
\* of a stored assertion with the edge's subject, predicate and object, and
\* an edge whose status is retracted or superseded belongs to an assertion
\* that is not active in the fact store.
C34_GraphNeverAhead ==
  \A e \in edges :
    /\ e.assertionId \in AssertionIds
    /\ LET a == assertions[e.assertionId]
       IN /\ a.subjectEntityId = e.from
          /\ a.predicate = e.type
          /\ a.objectEntityId = Some(e.to)
          /\ e.status \in {"retracted", "superseded"} => a.status # "active"

\* a correction has failed at a graph call after its commit, leaving an
\* active edge for a closed assertion, while another edge has been closed
C34_Witness ==
  /\ \E c \in Calls :
       /\ EndedCorrection(c, "error")
       /\ result[c].error = "Graph"
       /\ hist[c].committed
  /\ \E e \in edges : e.status = "active" /\ Closed(e.assertionId)
  /\ \E e \in edges : e.status # "active"

\* the rows of table entities with the given type and canonicalName
RowsKeyed(type, name) ==
  {id \in DOMAIN entityRows :
     entityRows[id].type = type /\ entityRows[id].canonicalName = name}

\* C35 (as claimed): in every state reachable through ingestion and
\* extraction at most one entity row exists per (type, canonicalName).
C35_OneRowPerKey ==
  \A id \in DOMAIN entityRows :
    Cardinality(RowsKeyed(entityRows[id].type, entityRows[id].canonicalName)) = 1

\* C36 (as claimed): every edge graphTraverse returns has from equal to the
\* subject and to equal to the object of the assertion the edge carries,
\* whichever way the path walked the relationship.
C36_EdgesPointSubjectToObject ==
  \A c \in Calls :
    EndedTraverse(c) =>
      \A i \in 1..Len(result[c].edges) :
        LET e == result[c].edges[i]
            a == assertions[e.properties.assertionId]
        IN /\ e.from = a.subjectEntityId
           /\ Some(e.to) = a.objectEntityId

\* the call in slot c was a timelineSearch and has returned a result
EndedTimeline(c) ==
  Ended(c) /\ result[c].call = "timelineSearch" /\ result[c].kind = "ok"

\* C37 (as claimed): every hit timelineSearch lists under a document has the
\* documentId of the entry it is listed in.
C37_HitsBelongToDocument ==
  \A c \in Calls :
    EndedTimeline(c) =>
      \A i \in 1..Len(result[c].results) :
        LET r == result[c].results[i]
        IN \A k \in 1..Len(r.hits) : r.hits[k].documentId = r.documentId

\* the call in slot c was a detectConflicts left to its default predicates
\* and has returned
EndedDefaultDetect(c) ==
  /\ Ended(c)
  /\ result[c].call = "detectConflicts"
  /\ result[c].kind = "ok"
  /\ hist[c].predicates \in {Null, Some(<< >>)}

\* C38: with its default predicates detectConflicts returns no group in any
\* state reached through extraction and corrections, every stored assertion
\* having a predicate of the extraction vocabulary.
C38_DefaultDetectsNothing ==
  /\ \A id \in DOMAIN assertions :
       assertions[id].predicate \in {"BENEFITS_FROM", "EXPOSED_TO", "SUPPLIES_TO", "IMPACTS"}
  /\ \A c \in Calls : EndedDefaultDetect(c) => result[c].conflicts = << >>

\* a default detection has returned while, a correction having been applied,
\* two active assertions give one subject and predicate different objects
C38_Witness ==
  /\ \E c \in Calls : EndedDefaultDetect(c) /\ hist[c].predicates = Null
  /\ corrections # {}
  /\ \E i, j \in DOMAIN assertions :
       /\ assertions[i].status = "active" /\ assertions[j].status = "active"
       /\ assertions[i].subjectEntityId = assertions[j].subjectEntityId
       /\ assertions[i].predicate = assertions[j].predicate
       /\ assertions[i].objectEntityId # assertions[j].objectEntityId

\* the call in slot c was an explainPath and has returned a result
EndedExplain(c) ==
  Ended(c) /\ result[c].call = "explainPath" /\ result[c].kind = "ok"

\* the relationships a retract has closed: the assertion is retracted in the
\* fact store, its correction is recorded and its edge carries the closure
ClosedEdges ==
  {g \in edges :
     /\ g.assertionId \in DOMAIN assertions
     /\ assertions[g.assertionId].status = "retracted"
     /\ \E k \in corrections : k.action = "retract" /\ k.targetAssertionId = g.assertionId
     /\ g.status = "retracted"}

\* the list es has the edge of relationship g, status retracted and validTo set
ReturnsClosed(es, g) ==
  \E i \in 1..Len(es) :
    /\ es[i].type = g.type
    /\ es[i].properties.assertionId = g.assertionId
    /\ es[i].properties.status = "retracted"
    /\ es[i].properties.validTo # Null

\* C39: graphTraverse and explainPath apply no status filter. After
\* retract(A) has completed, graph closure included, a graphTraverse whose
\* first seed is A's subject and whose edge types allow A's type, and which
\* returned fewer paths than its limit, returns A's edge with status retracted
\* and validTo set; so does an explainPath from A's subject to A's object over
\* A's type when A's is the only such relationship between the two.
C39_RetractedEdgeStillReturned ==
  \A c \in Calls : \A g \in ClosedEdges :
    LET h == hist[c]
    IN /\ (/\ EndedTraverse(c)
           /\ Len(h.seedEntityIds) > 0
           /\ Trim(h.seedEntityIds[1]) = g.from
           /\ InList(g.type, SanitizeEdgeTypes(h.edgeTypes))
           /\ Cardinality(h.paths) <
                ClampInt(Val(Coalesce(h.limit, Some(TraverseDefaultLimit))),
                         TraverseMinLimit, TraverseMaxLimit))
            => ReturnsClosed(result[c].edges, g)
       /\ (/\ EndedExplain(c)
           /\ Trim(h.fromEntityId) = g.from
           /\ Trim(h.toEntityId) = g.to
           /\ InList(g.type, SanitizeEdgeTypes(h.edgeTypes))
           /\ \A x \in edges :
                (/\ {x.from, x.to} = {g.from, g.to}
                 /\ InList(x.type, SanitizeEdgeTypes(h.edgeTypes))) => x = g)
            => ReturnsClosed(result[c].edges, g)

\* a graphTraverse from the subject of a retracted assertion, not cut by its
\* limit, returned the closed edge
C39_Witness ==
  \E c \in Calls : \E g \in ClosedEdges :
    /\ EndedTraverse(c)
    /\ Len(hist[c].seedEntityIds) > 0
    /\ Trim(hist[c].seedEntityIds[1]) = g.from
    /\ Cardinality(hist[c].paths) <
         ClampInt(Val(Coalesce(hist[c].limit, Some(TraverseDefaultLimit))),
                  TraverseMinLimit, TraverseMaxLimit)
    /\ ReturnsClosed(result[c].edges, g)

====
